---------------------------- MODULE Spec2Model ----------------------------
(***************************************************************************)
(* Model of the identifier reconciler of the Cognigy CI/CD pipeline        *)
(* (src/helper_files/helper_functions.py) and of the vendor client's       *)
(* package download, snapshot limit, snapshot download and deployment      *)
(* under the retry_on_500 decorator (src/helper_files/cognigy_client.py),  *)
(* and of the scripts deploy_agent.py, create_feature_branch_agent.py and  *)
(* extract_agent.py up to their first call of the client.                  *)
(*                                                                         *)
(* JSON documents are modelled as tagged values of one uniform record      *)
(* shape, so that Python's deep equality (==) is TLA+ equality:            *)
(*   str  -> [t |-> "str",  s |-> the string]                              *)
(*   int  -> [t |-> "num",  n |-> the number]                              *)
(*   bool -> [t |-> "bool", n |-> 0 or 1]                                  *)
(*   None -> [t |-> "null"]                                                *)
(*   dict -> [t |-> "dict", d |-> function from key strings to values]     *)
(*   list -> [t |-> "list", l |-> sequence of values]                      *)
(* A resource tree (a directory) is a function from the relative paths of  *)
(* its .json files to the documents they hold.                             *)
(***************************************************************************)
EXTENDS Integers, Sequences, FiniteSets, TLC

VARIABLES
    pc,               \* position in the operation under analysis
    mainTree,         \* files under main_dir
    featureTree,      \* files under feature_dir
    hist,             \* featureTree as it was after each step (hist[1]: at the start)
    main_mapping,     \* replace_ids_in_feature_directory: main_mapping
    feature_mapping,  \* replace_ids_in_feature_directory: feature_mapping
    id_mapping,       \* the substitution table (feature _id -> main _id)
    args,             \* [feature_project_id, main_project_id]
    prev_size,        \* download_package: prev_size
    checks,           \* download_package: the sizes read so far, one per download
    snapshots,        \* vendor project: the number of snapshots it lists
    deleting,         \* vendor project: deletions accepted and not yet applied
    creating,         \* vendor project: creations accepted and not yet completed
    retries,          \* retry_on_500: retries, one counter per decorated method
    calls,            \* what the client has done so far, counted by kind
    raised,           \* the exception that reached the caller ("none": none)
    env,              \* os.environ: the value of each variable ("unset": not set)
    locals,           \* the orchestration script's position and module-level names
    effects,          \* the file and network activity the script has had so far
    csnap_files       \* the number of .csnap files in <folder_name>/snapshot

\* The state of the reconciler and the state of the vendor client
treeVars == <<mainTree, featureTree, hist, main_mapping, feature_mapping, id_mapping, args>>
clientVars == <<prev_size, checks, snapshots, deleting, creating, retries, calls, raised>>

scriptVars == <<env, locals, effects, csnap_files>>

vars == <<pc, treeVars, clientVars, scriptVars>>

\* No orchestration script is running
NoLocals == [script |-> "none", ip |-> 0, project_id |-> "none",
             base_url |-> "none", api_key |-> "none", client |-> FALSE]

NoScript ==
    /\ env = <<>>
    /\ locals = NoLocals
    /\ effects = {}
    /\ csnap_files = 0

\* The methods decorated with retry_on_500 that the model follows
Decorated == {"download_package", "download_snapshot", "ensure_snapshot_limit", "deploy_agent"}

\* The status codes of the failed responses the model draws from
Statuses == {"500", "503", "404", "409"}
ServerErrors == {"500", "503"}
ClientErrors == {"404", "409"}

\* The kinds of steps counted in calls: the executions of each decorated
\* method, the snapshot creations and deletions requested, the time.sleep calls
\* made after an error response, and the responses received with each status
Kinds == Decorated \cup {"create", "delete", "sleep"} \cup Statuses

\* The vendor client has done nothing (the reconciler makes no request)
NoClient ==
    /\ prev_size = 0
    /\ checks = <<>>
    /\ snapshots = 0
    /\ deleting = 0
    /\ creating = 0
    /\ retries = [m \in Decorated |-> 0]
    /\ calls = [k \in Kinds |-> 0]
    /\ raised = "none"

----------------------------------------------------------------------------
(* JSON values *)

JS(x) == [t |-> "str", s |-> x, n |-> 0, d |-> <<>>, l |-> <<>>]
JN(i) == [t |-> "num", s |-> "", n |-> i, d |-> <<>>, l |-> <<>>]
JB(b) == [t |-> "bool", s |-> "", n |-> IF b THEN 1 ELSE 0, d |-> <<>>, l |-> <<>>]
JNull == [t |-> "null", s |-> "", n |-> 0, d |-> <<>>, l |-> <<>>]
JD(f) == [t |-> "dict", s |-> "", n |-> 0, d |-> f, l |-> <<>>]
JL(q) == [t |-> "list", s |-> "", n |-> 0, d |-> <<>>, l |-> q]

\* isinstance(v, str), isinstance(v, dict), isinstance(v, list)
IsStr(v) == v.t = "str"
IsDict(v) == v.t = "dict"
IsList(v) == v.t = "list"

\* "k" in obj, obj.get("k") and obj["k"] of a dict
Has(obj, k) == k \in DOMAIN obj.d
Get(obj, k) == IF k \in DOMAIN obj.d THEN obj.d[k] ELSE JNull

\* Python truthiness (if x:, if not x:)
Truthy(v) ==
    CASE v.t = "null" -> FALSE
      [] v.t = "str"  -> v.s # ""
      [] v.t = "num"  -> v.n # 0
      [] v.t = "bool" -> v.n # 0
      [] v.t = "dict" -> DOMAIN v.d # {}
      [] v.t = "list" -> Len(v.l) > 0

\* obj[k] = v on a dict (adds the key when it is missing)
Put(obj, k, v) == JD([x \in DOMAIN obj.d \cup {k} |-> IF x = k THEN v ELSE obj.d[x]])

\* {k: v for k, v in obj.items() if k not in keys}
Without(obj, keys) == JD([x \in DOMAIN obj.d \ keys |-> obj.d[x]])

\* The order in which the keys of a document are met when a dict is iterated:
\* the order in which json.load found them in the file, which for exported
\* resources is the exporter's fixed field order.
KeyOrder ==
    << "_id", "referenceId", "name", "keyphrase", "value", "label", "parent", "A",
       "createdAt", "createdBy", "lastChanged", "lastChangedBy",
       "chartReference", "intentTrainGroupReference",
       "projectReference", "imageUrlToken", "defaultLabel", "fieldName",
       "values", "items", "child", "nodes", "connections",
       "training_sentences", "slots", "Greet", "Bye" >>

Keys(obj) == SelectSeq(KeyOrder, LAMBDA k : k \in DOMAIN obj.d)

----------------------------------------------------------------------------
(* replace_ids: the generic rewrite *)

\* Three ways replace_ids could be wrong (the variants C2, C3 and C4 rule out):
\* the list branch forgotten,
RECURSIVE replace_ids_dicts_only(_, _)
replace_ids_dicts_only(data, table) ==
    IF IsDict(data)
    THEN JD([k \in DOMAIN data.d |->
                IF IsStr(data.d[k]) /\ data.d[k] \in DOMAIN table
                THEN table[data.d[k]]
                ELSE replace_ids_dicts_only(data.d[k], table)])
    ELSE data

\* a break after the first item of a list that was replaced,
RECURSIVE replace_ids_first_item(_, _)
replace_ids_first_item(data, table) ==
    IF IsDict(data)
    THEN JD([k \in DOMAIN data.d |->
                IF IsStr(data.d[k]) /\ data.d[k] \in DOMAIN table
                THEN table[data.d[k]]
                ELSE replace_ids_first_item(data.d[k], table)])
    ELSE IF IsList(data)
    THEN LET hit(i) == IsStr(data.l[i]) /\ data.l[i] \in DOMAIN table
         IN  JL([i \in 1..Len(data.l) |->
                    IF hit(i) /\ \A j \in 1..(i - 1) : ~hit(j)
                    THEN table[data.l[i]]
                    ELSE IF hit(i) THEN data.l[i]
                    ELSE replace_ids_first_item(data.l[i], table)])
    ELSE data

\* and the call's return value (None) stored over what was not replaced.
replace_ids_stores_result(data, table) ==
    IF IsDict(data)
    THEN JD([k \in DOMAIN data.d |->
                IF IsStr(data.d[k]) /\ data.d[k] \in DOMAIN table
                THEN table[data.d[k]]
                ELSE JNull])
    ELSE IF IsList(data)
    THEN JL([i \in 1..Len(data.l) |->
                IF IsStr(data.l[i]) /\ data.l[i] \in DOMAIN table
                THEN table[data.l[i]]
                ELSE JNull])
    ELSE data

\* helper_functions.py:185-208. The Python mutates data in place; here the
\* rewritten value is returned.
RECURSIVE replace_ids(_, _)
replace_ids(data, table) ==
    IF IsDict(data)
    THEN JD([k \in DOMAIN data.d |->
                IF IsStr(data.d[k]) /\ data.d[k] \in DOMAIN table
                THEN table[data.d[k]]
                ELSE replace_ids(data.d[k], table)])
    ELSE IF IsList(data)
    THEN JL([i \in 1..Len(data.l) |->
                IF IsStr(data.l[i]) /\ data.l[i] \in DOMAIN table
                THEN table[data.l[i]]
                ELSE replace_ids(data.l[i], table)])
    ELSE data

\* helper_functions.py:263-289: every .json file is loaded, rewritten and dumped.
replace_ids_in_files(tree, table) ==
    [p \in DOMAIN tree |-> replace_ids(tree[p], table)]

----------------------------------------------------------------------------
(* Directories and files *)

\* A path is the sequence of its components below the tree's root. Every file
\* of the model has the extension .json (the loops skip all other files).
\* os.walk / os.listdir order: the position of the path in WalkOrder.
WalkOrder ==
    << <<"flows", "Main", "metadata", "metadata.json">>,
       <<"flows", "Main", "settings", "settings.json">>,
       <<"flows", "Main", "chart", "chart.json">>,
       <<"flows", "Main", "intents", "intents.json">>,
       <<"flows", "Side", "metadata", "metadata.json">>,
       <<"flows", "Side", "settings", "settings.json">>,
       <<"flows", "Side", "intents", "intents.json">>,
       <<"lexicons", "Colors.json">>,
       <<"lexicons", "Sizes.json">>,
       <<"extensions", "Ext.json">>,
       <<"extensions", "Other.json">> >>

\* helper_functions.py:120-127
traverse_directory(tree) == SelectSeq(WalkOrder, LAMBDA p : p \in DOMAIN tree)

\* os.path.exists(os.path.join(dir, name)) for a directory directly below the root
DirExists(tree, name) == \E p \in DOMAIN tree : p[1] = name

\* os.listdir of a directory directly below the root, in listing order
RECURSIVE Dedup(_)
Dedup(q) ==
    IF q = <<>> THEN <<>>
    ELSE LET r == Dedup(SubSeq(q, 1, Len(q) - 1))
             x == q[Len(q)]
         IN  IF \E i \in 1..Len(r) : r[i] = x THEN r ELSE Append(r, x)

ListDir(tree, name) ==
    LET under == SelectSeq(traverse_directory(tree), LAMBDA p : p[1] = name)
    IN  Dedup([i \in 1..Len(under) |-> under[i][2]])

\* A file that does not hold valid JSON (json.load raises JSONDecodeError)
Malformed == [t |-> "bad", s |-> "", n |-> 0, d |-> <<>>, l |-> <<>>]

----------------------------------------------------------------------------
(* load_json_files and create_id_mapping: the identifier map *)

\* helper_functions.py:131-142: the objects that carry a referenceId, pre-order
RECURSIVE extract_objects(_)
RECURSIVE extract_from(_, _)
extract_from(data, keys) ==
    IF keys = <<>> THEN <<>>
    ELSE extract_objects(data.d[Head(keys)]) \o extract_from(data, Tail(keys))

RECURSIVE extract_items(_)
extract_items(q) ==
    IF q = <<>> THEN <<>> ELSE extract_objects(Head(q)) \o extract_items(Tail(q))

extract_objects(data) ==
    IF IsDict(data)
    THEN (IF Has(data, "referenceId") THEN <<data>> ELSE <<>>)
         \o extract_from(data, Keys(data))
    ELSE IF IsList(data) THEN extract_items(data.l)
    ELSE <<>>

\* A mapping (a Python dict keyed by referenceId, in insertion order) is a
\* sequence of entries [ref, id, objectData]; id is obj.get("_id"), so None
\* (JNull) when the object has no _id.
MapHas(mapping, ref) == \E i \in 1..Len(mapping) : mapping[i].ref = ref
MapGet(mapping, ref) == mapping[CHOOSE i \in 1..Len(mapping) : mapping[i].ref = ref]
MapRefs(mapping) == {mapping[i].ref : i \in 1..Len(mapping)}
\* mapping[ref] = entry: a new key goes last, a known key keeps its place
MapPut(mapping, e) ==
    IF MapHas(mapping, e.ref)
    THEN [i \in 1..Len(mapping) |-> IF mapping[i].ref = e.ref THEN e ELSE mapping[i]]
    ELSE Append(mapping, e)

\* The loop with mapping[reference_id] assigned for every object, so that the
\* last occurrence is recorded (the variant C23 rules out)
RECURSIVE add_objects_last_wins(_, _)
add_objects_last_wins(mapping, objects) ==
    IF objects = <<>> THEN mapping
    ELSE LET obj == Head(objects)
             reference_id == Get(obj, "referenceId")
         IN  add_objects_last_wins(
                 IF Truthy(reference_id)
                 THEN MapPut(mapping, [ref |-> reference_id, id |-> Get(obj, "_id"),
                                       objectData |-> obj])
                 ELSE mapping,
                 Tail(objects))
\* helper_functions.py:149-156: the loop over the objects of one file
RECURSIVE add_objects(_, _)
add_objects(mapping, objects) ==
    IF objects = <<>> THEN mapping
    ELSE LET obj == Head(objects)
             reference_id == Get(obj, "referenceId")
         IN  add_objects(
                 IF Truthy(reference_id) /\ ~MapHas(mapping, reference_id)
                 THEN Append(mapping, [ref |-> reference_id, id |-> Get(obj, "_id"),
                                       objectData |-> obj])
                 ELSE mapping,
                 Tail(objects))

\* helper_functions.py:129-157. json.load is not guarded here: a malformed file
\* raises out of load_json_files (LoadRaises).
RECURSIVE load_from(_, _, _)
load_from(tree, file_paths, mapping) ==
    IF file_paths = <<>> THEN mapping
    ELSE load_from(tree, Tail(file_paths),
                   add_objects(mapping, extract_objects(tree[Head(file_paths)])))

load_json_files(tree, file_paths) == load_from(tree, file_paths, <<>>)

LoadRaises(tree) == \E p \in DOMAIN tree : tree[p] = Malformed

\* helper_functions.py:176-183. Every entry of a mapping has the key "_id"
\* (load_json_files stores obj.get("_id") under it, lines 152-155), so the
\* test "_id" in main_obj and "_id" in feature_obj is always true.
RECURSIVE create_from(_, _, _)
create_from(main_map, feature_map, i) ==
    IF i = 0 THEN <<>>
    ELSE LET rest == create_from(main_map, feature_map, i - 1)
             main_obj == main_map[i]
         IN  IF MapHas(feature_map, main_obj.ref)
             THEN Append(rest, <<MapGet(feature_map, main_obj.ref).id, main_obj.id>>)
             ELSE rest

\* A table (a Python dict) built from a sequence of assignments key -> value:
\* a later assignment to the same key overwrites the earlier one.
TableOf(pairs) ==
    [k \in {pairs[i][1] : i \in 1..Len(pairs)} |->
        pairs[CHOOSE i \in 1..Len(pairs) :
                 /\ pairs[i][1] = k
                 /\ \A j \in (i + 1)..Len(pairs) : pairs[j][1] # k][2]]

create_id_mapping(main_map, feature_map) ==
    TableOf(create_from(main_map, feature_map, Len(main_map)))

----------------------------------------------------------------------------
(* extract_flow_setting_ids *)

FlowFile(flow, part) == <<"flows", flow, part, part \o ".json">>

\* open() of a missing file and json.load of a malformed one both raise
Readable(tree, p) == p \in DOMAIN tree /\ tree[p] # Malformed

\* helper_functions.py:159-174 raises when the flows directory does not exist
\* (os.listdir) or a flow lacks a readable metadata.json or settings.json.
extract_flow_setting_ids_raises(tree) ==
    \/ ~DirExists(tree, "flows")
    \/ \E p \in DOMAIN tree :
          /\ p[1] = "flows"
          /\ \/ ~Readable(tree, FlowFile(p[2], "metadata"))
             \/ ~Readable(tree, FlowFile(p[2], "settings"))

\* helper_functions.py:159-174: flow referenceId -> settings _id, as a mapping
RECURSIVE flow_settings_from(_, _, _)
flow_settings_from(tree, flows, acc) ==
    IF flows = <<>> THEN acc
    ELSE LET flow == Head(flows)
             flow_ref_id == Get(tree[FlowFile(flow, "metadata")], "referenceId")
             flow_setting_id == Get(tree[FlowFile(flow, "settings")], "_id")
         IN  flow_settings_from(tree, Tail(flows),
                 MapPut(acc, [ref |-> flow_ref_id, id |-> flow_setting_id,
                              objectData |-> JNull]))

extract_flow_setting_ids(tree) == flow_settings_from(tree, ListDir(tree, "flows"), <<>>)

\* f"{ref_id}_FlowSetting{idx}" (helper_functions.py:238)
FlowRefMock(ref_id, idx) ==
    JS((IF ref_id.t = "null" THEN "None" ELSE ref_id.s) \o "_FlowSetting" \o ToString(idx))

\* helper_functions.py:236-241: the mock entries added to one of the two
\* mappings; which = "main" reads the settings id of the main flow, "feature"
\* that of the feature flow (a KeyError when the feature tree has no such flow).
RECURSIVE add_flow_settings(_, _, _, _)
add_flow_settings(mapping, keys_from, ids_from, idx) ==
    IF idx = Len(keys_from) THEN mapping
    ELSE LET ref_id == keys_from[idx + 1].ref
         IN  add_flow_settings(
                 MapPut(mapping, [ref |-> FlowRefMock(ref_id, idx),
                                  id |-> MapGet(ids_from, ref_id).id,
                                  objectData |-> JNull]),
                 keys_from, ids_from, idx + 1)

flow_settings_key_error(flow_settings_main_mapping, flow_settings_feature_mapping) ==
    \E i \in 1..Len(flow_settings_main_mapping) :
        ~MapHas(flow_settings_feature_mapping, flow_settings_main_mapping[i].ref)

----------------------------------------------------------------------------
(* replace_lexicon_ids *)

\* helper_functions.py:336-361: referenceId -> lexicon; a missing directory
\* gives no lexicons, a malformed file is skipped, a later file with the same
\* referenceId replaces the earlier one.
RECURSIVE lexicons_from(_, _, _)
lexicons_from(tree, names, acc) ==
    IF names = <<>> THEN acc
    ELSE LET lexicon == tree[<<"lexicons", Head(names)>>]
             reference_id == Get(lexicon, "referenceId")
         IN  lexicons_from(tree, Tail(names),
                 IF lexicon # Malformed /\ Truthy(reference_id)
                 THEN MapPut(acc, [ref |-> reference_id, id |-> JNull,
                                   objectData |-> lexicon])
                 ELSE acc)

load_lexicons_by_reference_id(tree) ==
    IF ~DirExists(tree, "lexicons") THEN <<>>
    ELSE lexicons_from(tree, ListDir(tree, "lexicons"), <<>>)

\* .get("values", [])
ListOr(obj, k) == IF Has(obj, k) THEN obj.d[k].l ELSE <<>>

\* helper_functions.py:317-327: one feature value against the main values
FirstKeyphrase(main_values, keyphrase) ==
    CHOOSE i \in 1..Len(main_values) :
        /\ Get(main_values[i], "keyphrase") = keyphrase
        /\ \A j \in 1..(i - 1) : Get(main_values[j], "keyphrase") # keyphrase

\* match_lexicon_value without the comparison of line 324 (the variant C9 rules out)
match_lexicon_value_unconditional(feature_value, main_values) ==
    IF Truthy(Get(feature_value, "keyphrase")) /\ Len(main_values) > 0
    THEN Put(feature_value, "_id", Get(main_values[1], "_id"))
    ELSE feature_value

match_lexicon_value(feature_value, main_values) ==
    LET feature_keyphrase == Get(feature_value, "keyphrase")
    IN  IF ~Truthy(feature_keyphrase) THEN feature_value
        ELSE IF \E i \in 1..Len(main_values) :
                    Get(main_values[i], "keyphrase") = feature_keyphrase
        THEN Put(feature_value, "_id",
                 Get(main_values[FirstKeyphrase(main_values, feature_keyphrase)], "_id"))
        ELSE feature_value

\* helper_functions.py:308-327: one feature lexicon
match_lexicon(feature_lexicon, main_lexicons, reference_id) ==
    IF ~MapHas(main_lexicons, reference_id)
       \/ ~Truthy(MapGet(main_lexicons, reference_id).objectData)
    THEN feature_lexicon
    ELSE LET main_values == ListOr(MapGet(main_lexicons, reference_id).objectData, "values")
             feature_values == ListOr(feature_lexicon, "values")
         IN  IF ~Has(feature_lexicon, "values") THEN feature_lexicon
             ELSE Put(feature_lexicon, "values",
                      JL([i \in 1..Len(feature_values) |->
                             match_lexicon_value(feature_values[i], main_values)]))

\* helper_functions.py:330-333: the lexicons are written to <name>.json
RECURSIVE write_lexicons(_, _, _)
write_lexicons(tree, lexicons, main_lexicons) ==
    IF lexicons = <<>> THEN tree
    ELSE LET e == Head(lexicons)
             updated == match_lexicon(e.objectData, main_lexicons, e.ref)
             path == <<"lexicons", Get(updated, "name").s \o ".json">>
         IN  write_lexicons([p \in DOMAIN tree \cup {path} |->
                                IF p = path THEN updated ELSE tree[p]],
                            Tail(lexicons), main_lexicons)

\* helper_functions.py:291-333
replace_lexicon_ids(feature_tree, main_tree) ==
    write_lexicons(feature_tree, load_lexicons_by_reference_id(feature_tree),
                   load_lexicons_by_reference_id(main_tree))

\* main_value["_id"] (line 326) and feature_lexicon['name'] (line 331) raise
\* KeyError when the key is missing.
replace_lexicon_ids_raises(feature_tree, main_tree) ==
    LET feature_lexicons == load_lexicons_by_reference_id(feature_tree)
        main_lexicons == load_lexicons_by_reference_id(main_tree)
    IN  \E i \in 1..Len(feature_lexicons) :
           \/ ~Has(feature_lexicons[i].objectData, "name")
           \/ /\ MapHas(main_lexicons, feature_lexicons[i].ref)
              /\ LET main_values ==
                        ListOr(MapGet(main_lexicons, feature_lexicons[i].ref).objectData, "values")
                     feature_values == ListOr(feature_lexicons[i].objectData, "values")
                 IN  \E j \in 1..Len(feature_values) :
                        LET kp == Get(feature_values[j], "keyphrase")
                        IN  /\ Truthy(kp)
                            /\ \E m \in 1..Len(main_values) :
                                  Get(main_values[m], "keyphrase") = kp
                            /\ ~Has(main_values[FirstKeyphrase(main_values, kp)], "_id")

----------------------------------------------------------------------------
(* replace_slot_ids *)

\* helper_functions.py:412-421: one feature slot against the slots of the
\* matched main sentence
\* SlotMatches with the _id left in the comparison (the variant C10 rules out)
SlotMatchesWithId(main_slot, feature_slot) ==
    main_slot = feature_slot

SlotMatches(main_slot, feature_slot) ==
    Without(main_slot, {"_id"}) = Without(feature_slot, {"_id"})

FirstSlot(main_slots, feature_slot) ==
    CHOOSE i \in 1..Len(main_slots) :
        /\ SlotMatches(main_slots[i], feature_slot)
        /\ \A j \in 1..(i - 1) : ~SlotMatches(main_slots[j], feature_slot)

match_slot(feature_slot, main_slots) ==
    IF /\ \E i \in 1..Len(main_slots) : SlotMatches(main_slots[i], feature_slot)
       /\ Truthy(main_slots[FirstSlot(main_slots, feature_slot)])
    THEN Put(feature_slot, "_id", Get(main_slots[FirstSlot(main_slots, feature_slot)], "_id"))
    ELSE feature_slot

\* helper_functions.py:395-421: one feature training sentence
FirstSentence(main_sentences, reference_id) ==
    CHOOSE i \in 1..Len(main_sentences) :
        /\ Get(main_sentences[i], "referenceId") = reference_id
        /\ \A j \in 1..(i - 1) : Get(main_sentences[j], "referenceId") # reference_id

match_sentence(feature_sentence, main_sentences) ==
    LET reference_id == Get(feature_sentence, "referenceId")
    IN  IF ~Truthy(reference_id) THEN feature_sentence
        ELSE IF ~\E i \in 1..Len(main_sentences) :
                     Get(main_sentences[i], "referenceId") = reference_id
        THEN feature_sentence
        ELSE LET main_sentence == main_sentences[FirstSentence(main_sentences, reference_id)]
                 feature_slots == ListOr(feature_sentence, "slots")
             IN  IF ~Truthy(main_sentence) \/ ~Has(feature_sentence, "slots")
                 THEN feature_sentence
                 ELSE Put(feature_sentence, "slots",
                          JL([i \in 1..Len(feature_slots) |->
                                 match_slot(feature_slots[i], ListOr(main_sentence, "slots"))]))

\* helper_functions.py:389-421: one feature intent
match_intent(feature_intent_data, main_intents, intent_name) ==
    LET main_intent_data == Get(main_intents, intent_name)
        feature_sentences == ListOr(feature_intent_data, "training_sentences")
    IN  IF ~Truthy(main_intent_data) \/ ~Has(feature_intent_data, "training_sentences")
        THEN feature_intent_data
        ELSE Put(feature_intent_data, "training_sentences",
                 JL([i \in 1..Len(feature_sentences) |->
                        match_sentence(feature_sentences[i],
                                       ListOr(main_intent_data, "training_sentences"))]))

match_intents(feature_intents, main_intents) ==
    JD([intent_name \in DOMAIN feature_intents.d |->
           match_intent(feature_intents.d[intent_name], main_intents, intent_name)])

\* helper_functions.py:375-380: the flows whose intents.json exists on both sides
SlotFlows(feature_tree, main_tree) ==
    {p[2] : p \in {q \in DOMAIN feature_tree :
                      /\ q[1] = "flows"
                      /\ FlowFile(q[2], "intents") \in DOMAIN feature_tree
                      /\ FlowFile(q[2], "intents") \in DOMAIN main_tree}}

\* helper_functions.py:363-425
replace_slot_ids(feature_tree, main_tree) ==
    [p \in DOMAIN feature_tree |->
        IF \E flow_name \in SlotFlows(feature_tree, main_tree) :
               p = FlowFile(flow_name, "intents")
        THEN match_intents(feature_tree[p], main_tree[p])
        ELSE feature_tree[p]]

\* os.listdir of a missing flows directory (line 375), json.load of a malformed
\* intents.json (lines 382-386) and matching_main_slot["_id"] of a slot without
\* _id (line 421) raise.
slot_key_error(feature_intents, main_intents) ==
    \E intent_name \in DOMAIN feature_intents.d :
       /\ Truthy(Get(main_intents, intent_name))
       /\ LET fss == ListOr(feature_intents.d[intent_name], "training_sentences")
              mss == ListOr(Get(main_intents, intent_name), "training_sentences")
          IN  \E i \in 1..Len(fss) :
                 /\ Truthy(Get(fss[i], "referenceId"))
                 /\ \E m \in 1..Len(mss) :
                       Get(mss[m], "referenceId") = Get(fss[i], "referenceId")
                 /\ LET ms == mss[FirstSentence(mss, Get(fss[i], "referenceId"))]
                        fsl == ListOr(fss[i], "slots")
                        msl == ListOr(ms, "slots")
                    IN  \E k \in 1..Len(fsl) :
                           /\ \E m \in 1..Len(msl) : SlotMatches(msl[m], fsl[k])
                           /\ Truthy(msl[FirstSlot(msl, fsl[k])])
                           /\ ~Has(msl[FirstSlot(msl, fsl[k])], "_id")

replace_slot_ids_raises(feature_tree, main_tree) ==
    \/ ~DirExists(feature_tree, "flows")
    \/ \E flow_name \in SlotFlows(feature_tree, main_tree) :
          \/ feature_tree[FlowFile(flow_name, "intents")] = Malformed
          \/ main_tree[FlowFile(flow_name, "intents")] = Malformed
          \/ slot_key_error(feature_tree[FlowFile(flow_name, "intents")],
                            main_tree[FlowFile(flow_name, "intents")])

----------------------------------------------------------------------------
(* replace_extension_ids *)

\* helper_functions.py:548-573: name -> extension
RECURSIVE extensions_from(_, _, _)
extensions_from(tree, names, acc) ==
    IF names = <<>> THEN acc
    ELSE LET extension == tree[<<"extensions", Head(names)>>]
             name == Get(extension, "name")
         IN  extensions_from(tree, Tail(names),
                 IF extension # Malformed /\ Truthy(name)
                 THEN MapPut(acc, [ref |-> name, id |-> JNull, objectData |-> extension])
                 ELSE acc)

load_extensions_by_name(tree) ==
    IF ~DirExists(tree, "extensions") THEN <<>>
    ELSE extensions_from(tree, ListDir(tree, "extensions"), <<>>)

\* helper_functions.py:495-525: the first object, depth first, whose value
\* under key equals value; JNull stands for the None of "no match". obj.get(key)
\* is None for an object without the key.
RECURSIVE find_matching_object(_, _, _)
RECURSIVE find_in_list(_, _, _)
RECURSIVE find_in_dict(_, _, _, _)
find_in_list(objs, key, value) ==
    IF objs = <<>> THEN JNull
    ELSE LET obj == Head(objs)
         IN  IF IsDict(obj) /\ Get(obj, key) = value THEN obj
             ELSE IF IsDict(obj) /\ Truthy(find_matching_object(obj, key, value))
             THEN find_matching_object(obj, key, value)
             ELSE find_in_list(Tail(objs), key, value)

find_in_dict(obj, keys, key, value) ==
    IF keys = <<>> THEN JNull
    ELSE LET v == obj.d[Head(keys)]
         IN  IF IsDict(v) /\ Get(v, key) = value THEN v
             ELSE IF (IsDict(v) \/ IsList(v)) /\ Truthy(find_matching_object(v, key, value))
             THEN find_matching_object(v, key, value)
             ELSE find_in_dict(obj, Tail(keys), key, value)

find_matching_object(main_objects, key, value) ==
    IF IsList(main_objects) THEN find_in_list(main_objects.l, key, value)
    ELSE IF IsDict(main_objects) THEN find_in_dict(main_objects, Keys(main_objects), key, value)
    ELSE JNull

\* helper_functions.py:483-545
RECURSIVE update_ids_recursively(_, _, _)
update_ids_recursively(feature_objects, main_objects, key_to_match) ==
    IF IsList(feature_objects)
    THEN JL([i \in 1..Len(feature_objects.l) |->
                IF IsDict(feature_objects.l[i]) \/ IsList(feature_objects.l[i])
                THEN update_ids_recursively(feature_objects.l[i], main_objects, key_to_match)
                ELSE feature_objects.l[i]])
    ELSE IF IsDict(feature_objects)
    THEN LET matching_main_obj ==
                 find_matching_object(main_objects, key_to_match,
                                      Get(feature_objects, key_to_match))
             updated ==
                 IF /\ Has(feature_objects, "_id")
                    /\ Has(feature_objects, key_to_match)
                    /\ Truthy(matching_main_obj)
                 THEN Put(feature_objects, "_id", Get(matching_main_obj, "_id"))
                 ELSE feature_objects
         IN  JD([k \in DOMAIN updated.d |->
                    IF IsDict(updated.d[k]) \/ IsList(updated.d[k])
                    THEN update_ids_recursively(updated.d[k], main_objects, key_to_match)
                    ELSE updated.d[k]])
    ELSE feature_objects

\* lastChanged within 600 seconds of createdAt (helper_functions.py:454)
SnapshotRestoreWindow == 600

\* match_extension copying lastChanged and lastChangedBy without the test of
\* line 454 (the variant C11 rules out)
match_extension_unconditional(feature_extension, main_extension) ==
    LET copied == {"_id", "imageUrlToken", "lastChangedBy", "lastChanged",
                   "createdBy", "createdAt"}
    IN  JD([k \in DOMAIN feature_extension.d \cup copied |->
               IF k \in copied THEN Get(main_extension, k) ELSE feature_extension.d[k]])
\* helper_functions.py:444-474: one feature extension with a main extension of
\* the same name
match_extension(feature_extension, main_extension) ==
    LET e1 == Put(Put(feature_extension, "_id", Get(main_extension, "_id")),
                  "imageUrlToken", Get(main_extension, "imageUrlToken"))
        e2 == IF Get(e1, "lastChanged").n - SnapshotRestoreWindow < Get(e1, "createdAt").n
              THEN Put(Put(e1, "lastChangedBy", Get(main_extension, "lastChangedBy")),
                       "lastChanged", Get(main_extension, "lastChanged"))
              ELSE e1
        e3 == Put(Put(e2, "createdBy", Get(main_extension, "createdBy")),
                  "createdAt", Get(main_extension, "createdAt"))
        e4 == IF Has(e3, "nodes") /\ Has(main_extension, "nodes")
              THEN Put(e3, "nodes",
                       update_ids_recursively(e3.d["nodes"], main_extension.d["nodes"],
                                              "defaultLabel"))
              ELSE e3
    IN  IF Has(e4, "connections") /\ Has(main_extension, "connections")
        THEN Put(e4, "connections",
                 update_ids_recursively(e4.d["connections"], main_extension.d["connections"],
                                        "fieldName"))
        ELSE e4

\* helper_functions.py:477-480: every feature extension is written to <name>.json
RECURSIVE write_extensions(_, _, _)
write_extensions(tree, extensions, main_extensions) ==
    IF extensions = <<>> THEN tree
    ELSE LET e == Head(extensions)
             updated ==
                 IF MapHas(main_extensions, e.ref)
                    /\ Truthy(MapGet(main_extensions, e.ref).objectData)
                 THEN match_extension(e.objectData, MapGet(main_extensions, e.ref).objectData)
                 ELSE e.objectData
             path == <<"extensions", e.ref.s \o ".json">>
         IN  write_extensions([p \in DOMAIN tree \cup {path} |->
                                  IF p = path THEN updated ELSE tree[p]],
                              Tail(extensions), main_extensions)

\* helper_functions.py:427-480
replace_extension_ids(feature_tree, main_tree) ==
    write_extensions(feature_tree, load_extensions_by_name(feature_tree),
                     load_extensions_by_name(main_tree))

\* helper_functions.py:534-538: matching_main_obj["_id"] raises KeyError when
\* the main object found for a feature object has no _id
RECURSIVE update_ids_key_error(_, _, _)
update_ids_key_error(feature_objects, main_objects, key_to_match) ==
    IF IsList(feature_objects)
    THEN \E i \in 1..Len(feature_objects.l) :
            update_ids_key_error(feature_objects.l[i], main_objects, key_to_match)
    ELSE IF IsDict(feature_objects)
    THEN \/ /\ Has(feature_objects, "_id")
            /\ Has(feature_objects, key_to_match)
            /\ LET matching_main_obj ==
                       find_matching_object(main_objects, key_to_match,
                                            Get(feature_objects, key_to_match))
               IN  Truthy(matching_main_obj) /\ ~Has(matching_main_obj, "_id")
         \/ \E k \in DOMAIN feature_objects.d :
               update_ids_key_error(feature_objects.d[k], main_objects, key_to_match)
    ELSE FALSE

\* main_extension[...] of a missing key raises KeyError, and the subtraction
\* and comparison of line 454 raise TypeError unless both values are numbers.
replace_extension_ids_raises(feature_tree, main_tree) ==
    LET feature_extensions == load_extensions_by_name(feature_tree)
        main_extensions == load_extensions_by_name(main_tree)
    IN  \E i \in 1..Len(feature_extensions) :
           /\ MapHas(main_extensions, feature_extensions[i].ref)
           /\ LET fe == feature_extensions[i].objectData
                  me == MapGet(main_extensions, feature_extensions[i].ref).objectData
              IN  \/ \E k \in {"_id", "imageUrlToken", "createdBy", "createdAt"} : ~Has(me, k)
                  \/ Get(fe, "lastChanged").t # "num"
                  \/ Get(fe, "createdAt").t # "num"
                  \/ /\ Get(fe, "lastChanged").n - SnapshotRestoreWindow < Get(fe, "createdAt").n
                     /\ \E k \in {"lastChangedBy", "lastChanged"} : ~Has(me, k)
                  \/ /\ Has(fe, "nodes") /\ Has(me, "nodes")
                     /\ update_ids_key_error(fe.d["nodes"], me.d["nodes"], "defaultLabel")
                  \/ /\ Has(fe, "connections") /\ Has(me, "connections")
                     /\ update_ids_key_error(fe.d["connections"], me.d["connections"],
                                             "fieldName")

----------------------------------------------------------------------------
(* replace_metadata_in_files *)

\* helper_functions.py:46
metadata_keys == {"lastChanged", "lastChangedBy"}

\* The fields copied from the main object whenever it has them
\* (helper_functions.py:90-97)
always_copied == {"createdAt", "createdBy", "chartReference", "intentTrainGroupReference"}

\* obj[k] = main_object[k] for every k of keys that main_object has
CopyFields(obj, main_object, keys) ==
    JD([k \in DOMAIN obj.d \cup (keys \cap DOMAIN main_object.d) |->
           IF k \in keys /\ k \in DOMAIN main_object.d THEN main_object.d[k] ELSE obj.d[k]])

\* reconcile_metadata without the comparison of line 102 (the variant C6 rules out)
reconcile_metadata_unconditional(obj, main_object) ==
    CopyFields(CopyFields(obj, main_object, always_copied), main_object, metadata_keys)

\* helper_functions.py:89-106: an object whose referenceId the main mapping knows
reconcile_metadata(obj, main_object) ==
    LET o1 == CopyFields(obj, main_object, always_copied)
    IN  IF Without(o1, metadata_keys) = Without(main_object, metadata_keys)
        THEN CopyFields(o1, main_object, metadata_keys)
        ELSE o1

\* helper_functions.py:69-118. The comparison of line 102 is made before the
\* nested values are processed (lines 110-111).
RECURSIVE replace_metadata_in_object(_, _)
replace_metadata_in_object(obj, main_map) ==
    IF IsDict(obj)
    THEN LET reference_id == Get(obj, "referenceId")
             o1 == IF /\ Truthy(reference_id)
                      /\ MapHas(main_map, reference_id)
                      /\ Truthy(MapGet(main_map, reference_id).objectData)
                   THEN reconcile_metadata(obj, MapGet(main_map, reference_id).objectData)
                   ELSE obj
         IN  JD([k \in DOMAIN o1.d |-> replace_metadata_in_object(o1.d[k], main_map)])
    ELSE IF IsList(obj)
    THEN JL([i \in 1..Len(obj.l) |-> replace_metadata_in_object(obj.l[i], main_map)])
    ELSE obj

\* helper_functions.py:37-66: a malformed file is skipped
replace_metadata_in_files(tree, main_map) ==
    [p \in DOMAIN tree |->
        IF tree[p] = Malformed THEN tree[p]
        ELSE replace_metadata_in_object(tree[p], main_map)]

----------------------------------------------------------------------------
(* replace_ids_in_feature_directory, step by step (helper_functions.py:225-261) *)

\* lines 227-231
LoadMappings ==
    /\ pc = "start"
    /\ IF LoadRaises(mainTree) \/ LoadRaises(featureTree)
       THEN /\ pc' = "raised"
            /\ UNCHANGED <<main_mapping, feature_mapping>>
       ELSE /\ pc' = "loaded"
            /\ main_mapping' = load_json_files(mainTree, traverse_directory(mainTree))
            /\ feature_mapping' = load_json_files(featureTree, traverse_directory(featureTree))
    /\ UNCHANGED <<mainTree, featureTree, hist, id_mapping, args>>
    /\ UNCHANGED <<clientVars, scriptVars>>

\* lines 234-241
AddFlowSettings ==
    /\ pc = "loaded"
    /\ IF \/ extract_flow_setting_ids_raises(mainTree)
          \/ extract_flow_setting_ids_raises(featureTree)
          \/ flow_settings_key_error(extract_flow_setting_ids(mainTree),
                                     extract_flow_setting_ids(featureTree))
       THEN /\ pc' = "raised"
            /\ UNCHANGED <<main_mapping, feature_mapping>>
       ELSE LET flow_settings_main_mapping == extract_flow_setting_ids(mainTree)
                flow_settings_feature_mapping == extract_flow_setting_ids(featureTree)
            IN  /\ pc' = "flows"
                /\ main_mapping' = add_flow_settings(main_mapping,
                       flow_settings_main_mapping, flow_settings_main_mapping, 0)
                /\ feature_mapping' = add_flow_settings(feature_mapping,
                       flow_settings_main_mapping, flow_settings_feature_mapping, 0)
    /\ UNCHANGED <<mainTree, featureTree, hist, id_mapping, args>>
    /\ UNCHANGED <<clientVars, scriptVars>>

\* lines 245-246
CreateIdMapping ==
    /\ pc = "flows"
    /\ pc' = "mapped"
    /\ LET t == create_id_mapping(main_mapping, feature_mapping)
       IN  id_mapping' = [k \in DOMAIN t \cup {args.feature_project_id} |->
                             IF k = args.feature_project_id THEN args.main_project_id
                             ELSE t[k]]
    /\ UNCHANGED <<mainTree, featureTree, hist, main_mapping, feature_mapping, args>>
    /\ UNCHANGED <<clientVars, scriptVars>>

\* line 249
ReplaceIdsInFiles ==
    /\ pc = "mapped"
    /\ pc' = "replaced"
    /\ featureTree' = replace_ids_in_files(featureTree, id_mapping)
    /\ hist' = Append(hist, featureTree')
    /\ UNCHANGED <<mainTree, main_mapping, feature_mapping, id_mapping, args>>
    /\ UNCHANGED <<clientVars, scriptVars>>

\* line 252
ReplaceLexiconIds ==
    /\ pc = "replaced"
    /\ IF replace_lexicon_ids_raises(featureTree, mainTree)
       THEN /\ pc' = "raised"
            /\ UNCHANGED <<featureTree, hist>>
       ELSE /\ pc' = "lex"
            /\ featureTree' = replace_lexicon_ids(featureTree, mainTree)
            /\ hist' = Append(hist, featureTree')
    /\ UNCHANGED <<mainTree, main_mapping, feature_mapping, id_mapping, args>>
    /\ UNCHANGED <<clientVars, scriptVars>>

\* line 255
ReplaceSlotIds ==
    /\ pc = "lex"
    /\ IF replace_slot_ids_raises(featureTree, mainTree)
       THEN /\ pc' = "raised"
            /\ UNCHANGED <<featureTree, hist>>
       ELSE /\ pc' = "slot"
            /\ featureTree' = replace_slot_ids(featureTree, mainTree)
            /\ hist' = Append(hist, featureTree')
    /\ UNCHANGED <<mainTree, main_mapping, feature_mapping, id_mapping, args>>
    /\ UNCHANGED <<clientVars, scriptVars>>

\* replace_extension_ids(main_dir, feature_dir): the two directories exchanged,
\* so that the files of lines 476-480 are written under main_dir
ReplaceExtensionIdsSwapped ==
    /\ pc = "slot"
    /\ IF replace_extension_ids_raises(mainTree, featureTree)
       THEN /\ pc' = "raised"
            /\ UNCHANGED <<mainTree, hist>>
       ELSE /\ pc' = "ext"
            /\ mainTree' = replace_extension_ids(mainTree, featureTree)
            /\ hist' = Append(hist, featureTree)
    /\ UNCHANGED <<featureTree, main_mapping, feature_mapping, id_mapping, args>>
    /\ UNCHANGED <<clientVars, scriptVars>>

\* line 258
ReplaceExtensionIds ==
    /\ pc = "slot"
    /\ IF replace_extension_ids_raises(featureTree, mainTree)
       THEN /\ pc' = "raised"
            /\ UNCHANGED <<featureTree, hist>>
       ELSE /\ pc' = "ext"
            /\ featureTree' = replace_extension_ids(featureTree, mainTree)
            /\ hist' = Append(hist, featureTree')
    /\ UNCHANGED <<mainTree, main_mapping, feature_mapping, id_mapping, args>>
    /\ UNCHANGED <<clientVars, scriptVars>>

\* line 261
ReplaceMetadata ==
    /\ pc = "ext"
    /\ pc' = "done"
    /\ featureTree' = replace_metadata_in_files(featureTree, main_mapping)
    /\ hist' = Append(hist, featureTree')
    /\ UNCHANGED <<mainTree, main_mapping, feature_mapping, id_mapping, args>>
    /\ UNCHANGED <<clientVars, scriptVars>>


Pipeline ==
    \/ LoadMappings
    \/ AddFlowSettings
    \/ CreateIdMapping
    \/ ReplaceIdsInFiles
    \/ ReplaceLexiconIds
    \/ ReplaceSlotIds
    \/ ReplaceExtensionIds
    \/ ReplaceMetadata

----------------------------------------------------------------------------
(* The exported trees the reconciler is run on *)

\* Depth to which objects with a referenceId are nested in one another
MaxNest == 2

\* One exported object per nesting level. where: the trees that hold it;
\* mainId: the main object has an _id; featId: the feature object has the main
\* _id ("same"), an _id of its own ("fresh") or none.
LevelParams ==
    { q \in [where : {"both", "main", "feature"}, mainId : BOOLEAN,
             featId : {"same", "fresh", "none"}] :
        /\ q.where = "main" => q.featId = "none"
        /\ q.where = "feature" => (~q.mainId /\ q.featId # "same")
        /\ q.featId = "same" => q.mainId }

\* The nesting chains: every level but the innermost is in both trees. churn:
\* the four metadata fields of the feature objects differ from the main ones;
\* edited: the label of the innermost object was changed on the feature branch.
Chains ==
    UNION { [levels : { l \in [1..n -> LevelParams] :
                           \A k \in 1..(n - 1) : l[k].where = "both" },
             churn : BOOLEAN, edited : BOOLEAN] :
            n \in 1..MaxNest }

InMain(c, k) == k <= Len(c.levels) /\ c.levels[k].where \in {"both", "main"}
InFeature(c, k) == k <= Len(c.levels) /\ c.levels[k].where \in {"both", "feature"}

MainIdOf(c, k) == JS("M" \o ToString(k))
FeatureIdOf(c, k) ==
    IF c.levels[k].featId = "same" THEN MainIdOf(c, k) ELSE JS("F" \o ToString(k))

RECURSIVE MainNode(_, _)
MainNode(c, k) ==
    LET keys == {"referenceId", "label", "createdAt", "createdBy", "lastChanged", "lastChangedBy"}
                \cup (IF c.levels[k].mainId THEN {"_id"} ELSE {})
                \cup (IF k > 1 /\ c.levels[k - 1].mainId THEN {"parent"} ELSE {})
                \cup (IF InMain(c, k + 1) THEN {"child"} ELSE {})
    IN  JD([x \in keys |->
              CASE x = "_id" -> MainIdOf(c, k)
                [] x = "referenceId" -> JS("r" \o ToString(k))
                [] x = "label" -> JS("hello")
                [] x = "parent" -> MainIdOf(c, k - 1)
                [] x = "createdAt" -> JN(100)
                [] x = "createdBy" -> JS("alice")
                [] x = "lastChanged" -> JN(200)
                [] x = "lastChangedBy" -> JS("alice")
                [] x = "child" -> MainNode(c, k + 1)])

RECURSIVE FeatureNode(_, _)
FeatureNode(c, k) ==
    LET keys == {"referenceId", "label", "createdAt", "createdBy", "lastChanged", "lastChangedBy"}
                \cup (IF c.levels[k].featId # "none" THEN {"_id"} ELSE {})
                \cup (IF k > 1 /\ c.levels[k - 1].featId # "none" THEN {"parent"} ELSE {})
                \cup (IF InFeature(c, k + 1) THEN {"child"} ELSE {})
    IN  JD([x \in keys |->
              CASE x = "_id" -> FeatureIdOf(c, k)
                [] x = "referenceId" -> JS("r" \o ToString(k))
                [] x = "label" ->
                      IF c.edited /\ k = Len(c.levels) THEN JS("hi") ELSE JS("hello")
                [] x = "parent" -> FeatureIdOf(c, k - 1)
                [] x = "createdAt" -> IF c.churn THEN JN(900) ELSE JN(100)
                [] x = "createdBy" -> IF c.churn THEN JS("bot") ELSE JS("alice")
                [] x = "lastChanged" -> IF c.churn THEN JN(950) ELSE JN(200)
                [] x = "lastChangedBy" -> IF c.churn THEN JS("bot") ELSE JS("alice")
                [] x = "child" -> FeatureNode(c, k + 1)])

\* The objects without a referenceId (the flow settings, the lexicon values):
\* "plain" has no lexicon and the same settings _id in both trees, "same" a
\* lexicon whose value ids are the same in both trees, "renamed" a lexicon and
\* flow settings whose ids differ between the trees.
ExportKinds == {"plain", "same", "renamed"}

Lexicon(id, value_id) ==
    JD([_id |-> JS(id), referenceId |-> JS("rl"), name |-> JS("Colors"),
        values |-> JL(<< JD([_id |-> JS(value_id), keyphrase |-> JS("red")]) >>)])

FlowMetadata(id, project) ==
    JD([_id |-> JS(id), referenceId |-> JS("rf"), name |-> JS("Main"),
        projectReference |-> JS(project)])

MainTreeOf(c, lex) ==
    LET files == {FlowFile("Main", "metadata"), FlowFile("Main", "settings"),
                  FlowFile("Main", "chart")}
                 \cup (IF lex = "plain" THEN {} ELSE {<<"lexicons", "Colors.json">>})
    IN  [p \in files |->
            CASE p = FlowFile("Main", "metadata") -> FlowMetadata("Mf", "PM")
              [] p = FlowFile("Main", "settings") -> JD([_id |-> JS("Ms")])
              [] p = FlowFile("Main", "chart") ->
                    JL(IF InMain(c, 1) THEN <<MainNode(c, 1)>> ELSE <<>>)
              [] OTHER -> Lexicon("Ml", "Mv")]

FeatureTreeOf(c, lex) ==
    LET files == {FlowFile("Main", "metadata"), FlowFile("Main", "settings"),
                  FlowFile("Main", "chart")}
                 \cup (IF lex = "plain" THEN {} ELSE {<<"lexicons", "Colors.json">>})
    IN  [p \in files |->
            CASE p = FlowFile("Main", "metadata") -> FlowMetadata("Ff", "PF")
              [] p = FlowFile("Main", "settings") ->
                    JD([_id |-> JS(IF lex = "renamed" THEN "Fs" ELSE "Ms")])
              [] p = FlowFile("Main", "chart") ->
                    JL(IF InFeature(c, 1) THEN <<FeatureNode(c, 1)>> ELSE <<>>)
              [] OTHER -> Lexicon("Fl", IF lex = "renamed" THEN "Fv" ELSE "Mv")]

\* The state when replace_ids_in_feature_directory is called
\* (extract_feature_branch_agent.py:103)
Init ==
    /\ pc = "start"
    /\ \E c \in Chains, lex \in ExportKinds :
          /\ mainTree = MainTreeOf(c, lex)
          /\ featureTree = FeatureTreeOf(c, lex)
    /\ hist = <<featureTree>>
    /\ main_mapping = <<>>
    /\ feature_mapping = <<>>
    /\ id_mapping = <<>>
    /\ args = [feature_project_id |-> JS("PF"), main_project_id |-> JS("PM")]
    /\ NoClient
    /\ NoScript

Next == Pipeline

Spec == Init /\ [][Next]_vars

----------------------------------------------------------------------------
(* What the claims speak of *)

SeqToSet(q) == {q[i] : i \in 1..Len(q)}
Range(f) == {f[k] : k \in DOMAIN f}

\* The objects of a tree that carry a referenceId, and their referenceIds
ObjectsOf(tree) ==
    UNION {SeqToSet(extract_objects(tree[p])) : p \in {q \in DOMAIN tree : tree[q] # Malformed}}
RefsIn(tree) == {Get(o, "referenceId") : o \in ObjectsOf(tree)}
ObjectOf(tree, r) == CHOOSE o \in ObjectsOf(tree) : Get(o, "referenceId") = r

\* The referenceIds present in both trees as they were when the run started
SharedRefs == RefsIn(mainTree) \cap RefsIn(hist[1])

\* s is a string value of a dict or an item of a list, at any depth
RECURSIVE Occurs(_, _)
Occurs(v, s) ==
    IF IsDict(v) THEN \E k \in DOMAIN v.d : v.d[k] = s \/ Occurs(v.d[k], s)
    ELSE IF IsList(v) THEN \E i \in 1..Len(v.l) : v.l[i] = s \/ Occurs(v.l[i], s)
    ELSE FALSE

OccursInTree(tree, s) == \E p \in DOMAIN tree : Occurs(tree[p], s)

\* b has the shape of a, and wherever a holds the string s, b holds w
RECURSIVE Replaced(_, _, _, _)
Replaced(a, b, s, w) ==
    IF IsDict(a)
    THEN /\ IsDict(b)
         /\ DOMAIN a.d = DOMAIN b.d
         /\ \A k \in DOMAIN a.d :
               IF a.d[k] = s THEN b.d[k] = w ELSE Replaced(a.d[k], b.d[k], s, w)
    ELSE IF IsList(a)
    THEN /\ IsList(b)
         /\ Len(a.l) = Len(b.l)
         /\ \A i \in 1..Len(a.l) :
               IF a.l[i] = s THEN b.l[i] = w ELSE Replaced(a.l[i], b.l[i], s, w)
    ELSE TRUE

ReplacedInTree(before, after, s, w) ==
    /\ DOMAIN before = DOMAIN after
    /\ \A p \in DOMAIN before : Replaced(before[p], after[p], s, w)

\* The four metadata fields of the specification
MetadataFields == {"createdAt", "createdBy", "lastChanged", "lastChangedBy"}

\* A document with its identifier churn blanked: the _id of every object that
\* carries a referenceId, the four metadata fields, and the project ids
RECURSIVE EraseChurn(_)
EraseChurn(v) ==
    IF IsDict(v)
    THEN JD([k \in DOMAIN v.d |->
                IF k \in MetadataFields \/ (k = "_id" /\ Has(v, "referenceId"))
                THEN JNull
                ELSE EraseChurn(v.d[k])])
    ELSE IF IsList(v) THEN JL([i \in 1..Len(v.l) |-> EraseChurn(v.l[i])])
    ELSE IF v \in {args.feature_project_id, args.main_project_id} THEN JNull
    ELSE v

\* The feature tree the run started on is the main tree up to identifier churn
ChurnCopy ==
    /\ DOMAIN mainTree = DOMAIN hist[1]
    /\ \A p \in DOMAIN mainTree : EraseChurn(mainTree[p]) = EraseChurn(hist[1][p])

----------------------------------------------------------------------------
(* C1 *)

\* C1: when the feature tree is a copy of the main tree in which only the _id
\* of the objects with a referenceId, the project id and the four metadata
\* fields differ, every document of the feature tree equals the main tree's
\* document once replace_ids_in_feature_directory has run.
C1_EndToEnd ==
    (pc = "done" /\ ChurnCopy) => featureTree = mainTree

----------------------------------------------------------------------------
(* C2 *)

\* The _id the run found on the object with referenceId r, in each tree
\* (a JSON null when the object has no _id)
FeatureIdAt(r) == Get(ObjectOf(hist[1], r), "_id")
MainIdAt(r) == Get(ObjectOf(mainTree, r), "_id")

\* C2 (as stated): for every referenceId of both trees, after
\* replace_ids_in_files no string of the feature tree equals the feature _id any
\* more, and every place that held it holds the main _id.
C2_NoFeatureIdLeft ==
    Len(hist) >= 2 =>
        \A r \in SharedRefs :
            IsStr(FeatureIdAt(r)) =>
                /\ ~OccursInTree(hist[2], FeatureIdAt(r))
                /\ ReplacedInTree(hist[1], hist[2], FeatureIdAt(r), MainIdAt(r))

\* C2 (amended): every place that held the feature _id holds the main _id, and
\* a string equal to the feature _id is left only where the substitution table
\* has that string as the value of a key the tree held (an object whose _id is
\* the same in both trees).
C2_Substituted ==
    Len(hist) >= 2 =>
        \A r \in SharedRefs :
            IsStr(FeatureIdAt(r)) =>
                /\ ReplacedInTree(hist[1], hist[2], FeatureIdAt(r), MainIdAt(r))
                /\ OccursInTree(hist[2], FeatureIdAt(r)) =>
                      \E k \in DOMAIN id_mapping :
                          /\ id_mapping[k] = FeatureIdAt(r)
                          /\ OccursInTree(hist[1], k)

\* A nested object's feature _id, held at two depths, was replaced by a
\* different main _id
C2_Witness ==
    /\ pc = "replaced"
    /\ JS("r2") \in SharedRefs
    /\ FeatureIdAt(JS("r2")) = JS("F2")
    /\ MainIdAt(JS("r2")) = JS("M2")
    /\ OccursInTree(hist[1], JS("F2"))
    /\ ~OccursInTree(hist[2], JS("F2"))
    /\ OccursInTree(hist[2], JS("M2"))
    /\ FeatureIdAt(JS("r1")) = JS("F1")
    /\ OccursInTree(hist[1], JS("F1"))

----------------------------------------------------------------------------
(* C7, C8 *)

\* The entries the flow settings and the project id add to the table
\* (helper_functions.py:234-246)
SettingsEntries ==
    LET m == extract_flow_setting_ids(mainTree)
        f == extract_flow_setting_ids(hist[1])
    IN  {<<MapGet(f, m[i].ref).id, m[i].id>> : i \in 1..Len(m)}

ProjectEntry == <<args.feature_project_id, args.main_project_id>>

EntriesOf(table) == {<<k, table[k]>> : k \in DOMAIN table}

\* C7: the substitution table holds exactly one entry feature _id -> main _id
\* for each referenceId of both trees, and no entry that comes from a
\* referenceId of one tree only.
C7_OneEntryPerSharedRef ==
    pc \in {"mapped", "replaced", "lex", "slot", "ext", "done"} =>
        LET fromRefs == EntriesOf(id_mapping) \ (SettingsEntries \cup {ProjectEntry})
        IN  /\ \A r \in SharedRefs : <<FeatureIdAt(r), MainIdAt(r)>> \in EntriesOf(id_mapping)
            /\ \A e \in fromRefs :
                  \E r \in SharedRefs : e = <<FeatureIdAt(r), MainIdAt(r)>>
            /\ Cardinality(fromRefs) = Cardinality(SharedRefs)

\* wherever a holds a string, b holds a non-empty string
RECURSIVE StringsKept(_, _)
StringsKept(a, b) ==
    IF IsStr(a) THEN IsStr(b) /\ Truthy(b)
    ELSE IF IsDict(a)
    THEN IsDict(b) /\ DOMAIN a.d = DOMAIN b.d
         /\ \A k \in DOMAIN a.d : StringsKept(a.d[k], b.d[k])
    ELSE IF IsList(a)
    THEN IsList(b) /\ Len(a.l) = Len(b.l)
         /\ \A i \in 1..Len(a.l) : StringsKept(a.l[i], b.l[i])
    ELSE TRUE

\* C8: no entry of the substitution table has a null or empty key or value, and
\* replace_ids_in_files replaces no string of the feature tree by a null or
\* empty value.
C8_NoEmptyEntries ==
    /\ \A k \in DOMAIN id_mapping : Truthy(k) /\ Truthy(id_mapping[k])
    /\ Len(hist) >= 2 =>
          \A p \in DOMAIN hist[1] :
              (hist[1][p] # Malformed /\ Truthy(hist[1][p])) => StringsKept(hist[1][p], hist[2][p])

----------------------------------------------------------------------------
(* replace_ids on arbitrary documents and tables: C3, C4 *)

\* The number of identifiers the tables have as keys
NumIds == 2

IdNames == <<"A", "B", "C", "D">>
Ids == {JS(IdNames[i]) : i \in 1..NumIds}

\* The substitution tables: any identifiers as keys; as values identifiers
\* (a value may be a key again), a string that is no key, or the None that
\* create_id_mapping stores for an object without _id
Tables ==
    UNION { [K -> Ids \cup {JS("Z"), JNull}] : K \in SUBSET Ids }

\* The documents: identifiers, a string that contains one, a number, a boolean
\* and a null, in dicts (one with an identifier as a key) and lists, nested
Leaves == Ids \cup {JS("xA"), JN(1), JB(TRUE), JNull}

Inner ==
    Leaves
    \cup {JL(<<x, y>>) : x, y \in Ids \cup {JN(1)}}
    \cup {JD([A |-> x]) : x \in Leaves}

Documents ==
    {JD([value |-> x, A |-> y]) : x \in Inner, y \in Ids \cup {JS("xA")}}
    \cup {JL(<<x, y>>) : x \in Inner, y \in Ids \cup {JS("xA")}}

NoArgs == [feature_project_id |-> JNull, main_project_id |-> JNull]

InitRewrite ==
    /\ pc = "rw0"
    /\ \E doc \in Documents : featureTree = [p \in {FlowFile("Main", "chart")} |-> doc]
    /\ id_mapping \in Tables
    /\ hist = <<featureTree>>
    /\ mainTree = <<>>
    /\ main_mapping = <<>>
    /\ feature_mapping = <<>>
    /\ args = NoArgs
    /\ NoClient
    /\ NoScript

\* replace_ids_in_files(feature_dir, id_mapping), called a first and a second time
Rewrite ==
    /\ pc \in {"rw0", "rw1"}
    /\ pc' = IF pc = "rw0" THEN "rw1" ELSE "rw2"
    /\ featureTree' = replace_ids_in_files(featureTree, id_mapping)
    /\ hist' = Append(hist, featureTree')
    /\ UNCHANGED <<mainTree, main_mapping, feature_mapping, id_mapping, args>>
    /\ UNCHANGED <<clientVars, scriptVars>>

NextRewrite == Rewrite

SpecRewrite == InitRewrite /\ [][NextRewrite]_vars

\* C3 (as stated): applying replace_ids a second time with the same table
\* changes nothing, whatever the table.
C3_Idempotent ==
    pc = "rw2" => hist[3] = hist[2]

\* No value of the table is a key that the table maps to something else
NoChain(table) ==
    \A k \in DOMAIN table :
        table[k] \in DOMAIN table => table[table[k]] = table[k]

\* C3 (amended): applying replace_ids a second time with the same table
\* changes nothing when no value of the table is itself a key mapped to a
\* different value.
C3_IdempotentNoChain ==
    (pc = "rw2" /\ NoChain(id_mapping)) => hist[3] = hist[2]

\* Two entries without a chain, a first pass that replaced something, a
\* second that left it
C3_Witness ==
    /\ pc = "rw2"
    /\ NoChain(id_mapping)
    /\ DOMAIN id_mapping = {JS("A"), JS("B")}
    /\ id_mapping[JS("A")] = JS("Z")
    /\ OccursInTree(hist[1], JS("A"))
    /\ OccursInTree(hist[1], JS("B"))
    /\ hist[2] # hist[1]
    /\ hist[3] = hist[2]

\* b is a but for the strings of a that are keys of the table
RECURSIVE Frame(_, _, _)
Frame(a, b, table) ==
    IF IsDict(a)
    THEN /\ IsDict(b)
         /\ DOMAIN a.d = DOMAIN b.d
         /\ \A k \in DOMAIN a.d :
               (IsStr(a.d[k]) /\ a.d[k] \in DOMAIN table) \/ Frame(a.d[k], b.d[k], table)
    ELSE IF IsList(a)
    THEN /\ IsList(b)
         /\ Len(a.l) = Len(b.l)
         /\ \A i \in 1..Len(a.l) :
               (IsStr(a.l[i]) /\ a.l[i] \in DOMAIN table) \/ Frame(a.l[i], b.l[i], table)
    ELSE b = a

\* C4: replace_ids changes only the string values that are keys of the
\* table: numbers, booleans, nulls, the other strings, the keys of every dict
\* and the length and order of every list are as before.
C4_Frame ==
    Len(hist) >= 2 =>
        /\ DOMAIN hist[2] = DOMAIN hist[1]
        /\ \A p \in DOMAIN hist[1] : Frame(hist[1][p], hist[2][p], id_mapping)

\* A document with the key "A", the string "xA", a number and the identifier
\* A, of which the pass replaced the identifier
C4_Witness ==
    /\ pc = "rw1"
    /\ JS("A") \in DOMAIN id_mapping
    /\ \E p \in DOMAIN hist[1] :
          /\ hist[1][p] = JD([value |-> JL(<<JS("A"), JN(1)>>), A |-> JS("xA")])
          /\ hist[2][p] = JD([value |-> JL(<<id_mapping[JS("A")], JN(1)>>), A |-> JS("xA")])
          /\ hist[2][p] # hist[1][p]

----------------------------------------------------------------------------
(* Trees for the metadata step: C5, C6 *)

\* The number of metadata fields an exported object may lack
MaxMissing == 1

Lacking == {S \in SUBSET MetadataFields : Cardinality(S) <= MaxMissing}

\* One object with a referenceId in both trees. lackA, lackB: the metadata
\* fields the feature and the main object lack; churn: the feature object's
\* metadata values differ; edited: its label differs; chart: no
\* chartReference, the same one, or one per environment; child: a nested object
\* with a referenceId of its own, equal, with other metadata, or with another
\* label.
MetaParams ==
    [lackA : Lacking, lackB : Lacking, churn : BOOLEAN, edited : BOOLEAN,
     chart : {"none", "same", "differs"},
     child : {"none", "same", "churned", "edited"}]

MetaValue(side, k, churn) ==
    CASE k = "createdAt" -> IF side = "feature" /\ churn THEN JN(900) ELSE JN(100)
      [] k = "createdBy" -> IF side = "feature" /\ churn THEN JS("bot") ELSE JS("alice")
      [] k = "lastChanged" -> IF side = "feature" /\ churn THEN JN(950) ELSE JN(200)
      [] k = "lastChangedBy" -> IF side = "feature" /\ churn THEN JS("bot") ELSE JS("alice")

MetaChild(side, kind) ==
    JD([k \in {"_id", "referenceId", "label"} \cup MetadataFields |->
          CASE k = "_id" -> IF side = "feature" THEN JS("F2") ELSE JS("M2")
            [] k = "referenceId" -> JS("r2")
            [] k = "label" -> IF side = "feature" /\ kind = "edited" THEN JS("hi") ELSE JS("hello")
            [] OTHER -> MetaValue(side, k, kind = "churned")])

MetaNode(side, q) ==
    LET lack == IF side = "feature" THEN q.lackA ELSE q.lackB
        keys == {"_id", "referenceId", "label"} \cup (MetadataFields \ lack)
                \cup (IF q.chart = "none" THEN {} ELSE {"chartReference"})
                \cup (IF q.child = "none" THEN {} ELSE {"child"})
    IN  JD([k \in keys |->
              CASE k = "_id" -> IF side = "feature" THEN JS("F1") ELSE JS("M1")
                [] k = "referenceId" -> JS("r1")
                [] k = "label" -> IF side = "feature" /\ q.edited THEN JS("hi") ELSE JS("hello")
                [] k = "chartReference" ->
                      IF side = "feature" /\ q.chart = "differs" THEN JS("CF") ELSE JS("CM")
                [] k = "child" -> MetaChild(side, q.child)
                [] OTHER -> MetaValue(side, k, q.churn)])

MetaTree(side, q) ==
    [p \in {FlowFile("Main", "metadata"), FlowFile("Main", "settings"),
            FlowFile("Main", "chart")} |->
        CASE p = FlowFile("Main", "metadata") ->
                IF side = "feature" THEN FlowMetadata("Ff", "PF") ELSE FlowMetadata("Mf", "PM")
          [] p = FlowFile("Main", "settings") -> JD([_id |-> JS("Ms")])
          [] OTHER -> JL(<<MetaNode(side, q)>>)]

InitMeta ==
    /\ pc = "start"
    /\ \E q \in MetaParams :
          /\ mainTree = MetaTree("main", q)
          /\ featureTree = MetaTree("feature", q)
    /\ hist = <<featureTree>>
    /\ main_mapping = <<>>
    /\ feature_mapping = <<>>
    /\ id_mapping = <<>>
    /\ args = [feature_project_id |-> JS("PF"), main_project_id |-> JS("PM")]
    /\ NoClient
    /\ NoScript

SpecMeta == InitMeta /\ [][Next]_vars

\* The feature tree as replace_metadata_in_files found it (pc = "done")
BeforeMetadata == hist[Len(hist) - 1]

\* C5: when a feature object A and the main object B of the same
\* referenceId are equal in every field other than createdAt, createdBy,
\* lastChanged and lastChangedBy, then after replace_metadata_in_files the
\* metadata fields of A have the values of B's.
C5_MetadataCopied ==
    pc = "done" =>
        \A r \in RefsIn(BeforeMetadata) \cap RefsIn(mainTree) :
            LET A == ObjectOf(BeforeMetadata, r)
                B == ObjectOf(mainTree, r)
                A2 == ObjectOf(featureTree, r)
            IN  Without(A, MetadataFields) = Without(B, MetadataFields) =>
                    \A k \in MetadataFields \cap DOMAIN B.d : Get(A2, k) = B.d[k]

\* object a has field k exactly when b has it, with the same value
SameField(a, b, k) ==
    /\ Has(a, k) <=> Has(b, k)
    /\ Get(a, k) = Get(b, k)

----------------------------------------------------------------------------
(* Trees for the lexicon step: C9 *)

\* The number of entries of a lexicon's values list
MaxValues == 2

\* The keyphrase of an entry ("none": the entry has no keyphrase)
Phrases == {"red", "blue", "none"}

PhraseLists == UNION { [1..n -> Phrases] : n \in 0..MaxValues }

LexiconValue(side, i, phrase) ==
    LET id == JS((IF side = "feature" THEN "Fv" ELSE "Mv") \o ToString(i))
    IN  IF phrase = "none" THEN JD([_id |-> id])
        ELSE JD([_id |-> id, keyphrase |-> JS(phrase)])

LexiconOf(side, ref, phrases) ==
    JD([_id |-> JS(IF side = "feature" THEN "Fl" ELSE "Ml"),
        referenceId |-> JS(ref), name |-> JS("Colors"),
        values |-> JL([i \in 1..Len(phrases) |-> LexiconValue(side, i, phrases[i])])])

\* pairing: the main tree has the lexicon under the same referenceId
\* ("paired"), under another one ("other"), or has no lexicon ("absent")
LexTree(side, pairing, phrases) ==
    LET files == {FlowFile("Main", "metadata"), FlowFile("Main", "settings"),
                  FlowFile("Main", "chart")}
                 \cup (IF side = "main" /\ pairing = "absent" THEN {}
                       ELSE {<<"lexicons", "Colors.json">>})
    IN  [p \in files |->
            CASE p = FlowFile("Main", "metadata") ->
                    IF side = "feature" THEN FlowMetadata("Ff", "PF") ELSE FlowMetadata("Mf", "PM")
              [] p = FlowFile("Main", "settings") -> JD([_id |-> JS("Ms")])
              [] p = FlowFile("Main", "chart") -> JL(<<>>)
              [] OTHER -> LexiconOf(side,
                              IF side = "feature" /\ pairing = "other" THEN "rx" ELSE "rl",
                              phrases)]

InitLex ==
    /\ pc = "start"
    /\ \E pairing \in {"paired", "other", "absent"}, mp \in PhraseLists, fp \in PhraseLists :
          /\ mainTree = LexTree("main", pairing, mp)
          /\ featureTree = LexTree("feature", pairing, fp)
    /\ hist = <<featureTree>>
    /\ main_mapping = <<>>
    /\ feature_mapping = <<>>
    /\ id_mapping = <<>>
    /\ args = [feature_project_id |-> JS("PF"), main_project_id |-> JS("PM")]
    /\ NoClient
    /\ NoScript

SpecLex == InitLex /\ [][Next]_vars

ValuesOf(lexicon) == IF Has(lexicon, "values") THEN lexicon.d["values"].l ELSE <<>>

\* The values of the main tree's lexicon with the referenceId of lexicon
MainValuesFor(lexicon) ==
    LET same == {q \in DOMAIN mainTree :
                    /\ q[1] = "lexicons"
                    /\ Get(mainTree[q], "referenceId") = Get(lexicon, "referenceId")}
    IN  IF same = {} THEN <<>> ELSE ValuesOf(mainTree[CHOOSE q \in same : TRUE])

\* C9: after replace_lexicon_ids every entry of a feature lexicon whose
\* keyphrase is that of an entry of the main tree's lexicon (the lexicon with
\* the same referenceId) has the _id of a main entry with that keyphrase, and
\* every other entry has the _id it had before.
C9_LexiconMatched ==
    Len(hist) >= 3 =>
        \A p \in {q \in DOMAIN hist[2] : q[1] = "lexicons"} :
            LET before == ValuesOf(hist[2][p])
                after == ValuesOf(hist[3][p])
                main == MainValuesFor(hist[2][p])
            IN  /\ Len(after) = Len(before)
                /\ \A i \in 1..Len(before) :
                      LET hits == {m \in 1..Len(main) :
                                      /\ Has(before[i], "keyphrase")
                                      /\ Has(main[m], "keyphrase")
                                      /\ main[m].d["keyphrase"] = before[i].d["keyphrase"]}
                      IN  IF hits # {}
                          THEN \E m \in hits : Get(after[i], "_id") = Get(main[m], "_id")
                          ELSE Get(after[i], "_id") = Get(before[i], "_id")

\* The first feature entry took the _id of the second main entry, which has
\* its keyphrase; the second, which no main entry matches, kept its own
C9_Witness ==
    /\ pc = "lex"
    /\ \E p \in DOMAIN hist[2] :
          /\ p[1] = "lexicons"
          /\ MainValuesFor(hist[2][p]) =
                <<LexiconValue("main", 1, "blue"), LexiconValue("main", 2, "red")>>
          /\ ValuesOf(hist[2][p]) =
                <<LexiconValue("feature", 1, "red"), LexiconValue("feature", 2, "none")>>
          /\ ValuesOf(hist[3][p]) =
                <<LexiconValue("main", 2, "red"), LexiconValue("feature", 2, "none")>>

----------------------------------------------------------------------------
(* Trees for the slot step: C10 *)

\* The number of slots of a training sentence
MaxSlots == 2

SlotValues == {"Berlin", "Paris"}

SlotLists == UNION { [1..n -> SlotValues] : n \in 0..MaxSlots }

SlotOf(side, i, v) ==
    JD([_id |-> JS((IF side = "feature" THEN "Fc" ELSE "Mc") \o ToString(i)),
        name |-> JS("city"), value |-> JS(v)])

SentenceOf(side, ref, slots) ==
    JD([_id |-> JS(IF side = "feature" THEN "Ft" ELSE "Mt"),
        referenceId |-> JS(ref),
        slots |-> JL([i \in 1..Len(slots) |-> SlotOf(side, i, slots[i])])])

\* intents.json: intent name -> training sentences (cognigy_client.py:641-649)
IntentsOf(intent_name, sentence) ==
    JD([n \in {intent_name} |-> JD([training_sentences |-> JL(<<sentence>>)])])

\* intent: the name of the intent on the feature branch (Greet in the main
\* tree); ref: the referenceId of the feature sentence (s1 in the main tree);
\* exported: the main tree has an intents.json for the flow
SlotTree(side, intent, ref, exported, slots) ==
    LET files == {FlowFile("Main", "metadata"), FlowFile("Main", "settings"),
                  FlowFile("Main", "chart")}
                 \cup (IF side = "main" /\ ~exported THEN {}
                       ELSE {FlowFile("Main", "intents")})
    IN  [p \in files |->
            CASE p = FlowFile("Main", "metadata") ->
                    IF side = "feature" THEN FlowMetadata("Ff", "PF") ELSE FlowMetadata("Mf", "PM")
              [] p = FlowFile("Main", "settings") -> JD([_id |-> JS("Ms")])
              [] p = FlowFile("Main", "chart") -> JL(<<>>)
              [] OTHER ->
                    IF side = "feature"
                    THEN IntentsOf(intent, SentenceOf(side, ref, slots))
                    ELSE IntentsOf("Greet", SentenceOf(side, "s1", slots))]

InitSlot ==
    /\ pc = "start"
    /\ \E intent \in {"Greet", "Bye"}, ref \in {"s1", "s9"}, exported \in BOOLEAN,
          ms \in SlotLists, fs \in SlotLists :
          /\ mainTree = SlotTree("main", intent, ref, exported, ms)
          /\ featureTree = SlotTree("feature", intent, ref, exported, fs)
    /\ hist = <<featureTree>>
    /\ main_mapping = <<>>
    /\ feature_mapping = <<>>
    /\ id_mapping = <<>>
    /\ args = [feature_project_id |-> JS("PF"), main_project_id |-> JS("PM")]
    /\ NoClient
    /\ NoScript

SpecSlot == InitSlot /\ [][Next]_vars

\* The training sentences of an intents file, as <<intent name, sentence>>
SentencesOf(intents) ==
    UNION { {<<n, i>> : i \in 1..Len(IF Has(intents.d[n], "training_sentences")
                                   THEN intents.d[n].d["training_sentences"].l ELSE <<>>)} :
            n \in DOMAIN intents.d }

SentenceAt(intents, x) == intents.d[x[1]].d["training_sentences"].l[x[2]]

SlotsOf(sentence) == IF Has(sentence, "slots") THEN sentence.d["slots"].l ELSE <<>>

\* Two slots equal in all fields except _id
EqualButId(a, b) ==
    /\ DOMAIN a.d \ {"_id"} = DOMAIN b.d \ {"_id"}
    /\ \A k \in DOMAIN a.d \ {"_id"} : a.d[k] = b.d[k]

\* Every slot of the feature sentence x that equals, but for the _id, a slot
\* of the main sentence y has the _id of such a slot afterwards
SlotsTaken(before, after, main, x, y) ==
    LET fs == SlotsOf(SentenceAt(before, x))
        as == SlotsOf(SentenceAt(after, x))
        ms == SlotsOf(SentenceAt(main, y))
    IN  \A k \in 1..Len(fs) :
            LET hits == {m \in 1..Len(ms) : EqualButId(ms[m], fs[k])}
            IN  hits # {} => \E m \in hits : Get(as[k], "_id") = Get(ms[m], "_id")

\* Every slot of the feature sentence x that equals, but for the _id, no slot
\* of a main sentence among ys with the sentence's referenceId kept its _id
SlotsKept(before, after, main, x, ys) ==
    LET fs == SlotsOf(SentenceAt(before, x))
        as == SlotsOf(SentenceAt(after, x))
    IN  \A k \in 1..Len(fs) :
            (\A y \in ys :
                Get(SentenceAt(main, y), "referenceId") = Get(SentenceAt(before, x), "referenceId")
                    => \A m \in 1..Len(SlotsOf(SentenceAt(main, y))) :
                           ~EqualButId(SlotsOf(SentenceAt(main, y))[m], fs[k]))
            => Get(as[k], "_id") = Get(fs[k], "_id")

IntentFiles ==
    {p \in DOMAIN hist[3] \cap DOMAIN mainTree : Len(p) = 4 /\ p[1] = "flows" /\ p[3] = "intents"}

\* C10 (as stated): in each flow's intents file, whenever a feature training
\* sentence and a main training sentence have the same referenceId, every
\* slot of the feature sentence that equals a slot of the main sentence in all
\* fields except _id has that main slot's _id after replace_slot_ids, and the
\* slots without such a match keep their _id.
C10_SlotsMatched ==
    Len(hist) >= 4 =>
        \A p \in IntentFiles :
            \A x \in SentencesOf(hist[3][p]) :
                /\ \A y \in SentencesOf(mainTree[p]) :
                      Get(SentenceAt(hist[3][p], x), "referenceId")
                          = Get(SentenceAt(mainTree[p], y), "referenceId")
                      => SlotsTaken(hist[3][p], hist[4][p], mainTree[p], x, y)
                /\ SlotsKept(hist[3][p], hist[4][p], mainTree[p], x, SentencesOf(mainTree[p]))

\* The smallest number of a non-empty set of numbers
Least(S) == CHOOSE m \in S : \A n \in S : m <= n

\* C10 (amended): a feature training sentence is matched with the first
\* training sentence of the same referenceId in the main intent of the same
\* name; each of its slots that equals a slot of that main sentence in all
\* fields except _id has the _id of the first such main slot after
\* replace_slot_ids, and every other slot keeps its _id.
C10_SlotsMatchedInIntent ==
    Len(hist) >= 4 =>
        \A p \in IntentFiles :
            \A x \in SentencesOf(hist[3][p]) :
                LET ref == Get(SentenceAt(hist[3][p], x), "referenceId")
                    js == {y[2] : y \in {z \in SentencesOf(mainTree[p]) :
                                            /\ z[1] = x[1]
                                            /\ Truthy(ref)
                                            /\ Get(SentenceAt(mainTree[p], z), "referenceId") = ref}}
                    fs == SlotsOf(SentenceAt(hist[3][p], x))
                    as == SlotsOf(SentenceAt(hist[4][p], x))
                    ms == IF js = {} THEN <<>>
                          ELSE SlotsOf(SentenceAt(mainTree[p], <<x[1], Least(js)>>))
                IN  /\ Len(as) = Len(fs)
                    /\ \A k \in 1..Len(fs) :
                          LET hits == {m \in 1..Len(ms) : EqualButId(ms[m], fs[k])}
                          IN  IF hits # {}
                              THEN Get(as[k], "_id") = Get(ms[Least(hits)], "_id")
                              ELSE Get(as[k], "_id") = Get(fs[k], "_id")

\* In the intent Greet of both trees the sentence s1 has the slots Paris and
\* Berlin; the main sentence has Berlin only: the second feature slot took its
\* _id, the first kept its own
C10_Witness ==
    /\ pc = "slot"
    /\ \E p \in IntentFiles :
          /\ mainTree[p] = IntentsOf("Greet", SentenceOf("main", "s1", <<"Berlin">>))
          /\ "Greet" \in DOMAIN hist[3][p].d
          /\ SlotsOf(SentenceAt(hist[3][p], <<"Greet", 1>>)) =
                <<SlotOf("feature", 1, "Paris"), SlotOf("feature", 2, "Berlin")>>
          /\ SlotsOf(SentenceAt(hist[4][p], <<"Greet", 1>>)) =
                <<SlotOf("feature", 1, "Paris"), SlotOf("main", 1, "Berlin")>>

----------------------------------------------------------------------------
(* Trees for the extension step: C11, C12 *)

\* Seconds between createdAt and lastChanged of an exported extension
Ages == {0, 599, 600, 900}

\* createdAt of the main tree's extension; the feature tree's was created at 1000
MainCreated == {500, 1500}

ExtensionOf(side, name, created, age) ==
    LET f == side = "feature"
    IN  JD([_id |-> JS(IF f THEN "Fe" ELSE "Me"),
            referenceId |-> JS(IF f THEN "rFe" ELSE "rMe"),
            name |-> JS(name),
            imageUrlToken |-> JS(IF f THEN "Ftoken" ELSE "Mtoken"),
            createdAt |-> JN(created),
            createdBy |-> JS(IF f THEN "Fcreator" ELSE "Mcreator"),
            lastChanged |-> JN(created + age),
            lastChangedBy |-> JS(IF f THEN "Feditor" ELSE "Meditor"),
            nodes |-> JL(<< JD([_id |-> JS(IF f THEN "Fn" ELSE "Mn"),
                                defaultLabel |-> JS("Say")]) >>)])

\* pairing: the main tree has an extension of the same name ("paired"), one of
\* another name ("other"), or no extensions directory ("absent")
ExtTree(side, pairing, created, age) ==
    LET name == IF side = "main" /\ pairing = "other" THEN "Other" ELSE "Ext"
        files == {FlowFile("Main", "metadata"), FlowFile("Main", "settings"),
                  FlowFile("Main", "chart")}
                 \cup (IF side = "main" /\ pairing = "absent" THEN {}
                       ELSE {<<"extensions", name \o ".json">>})
    IN  [p \in files |->
            CASE p = FlowFile("Main", "metadata") ->
                    IF side = "feature" THEN FlowMetadata("Ff", "PF") ELSE FlowMetadata("Mf", "PM")
              [] p = FlowFile("Main", "settings") -> JD([_id |-> JS("Ms")])
              [] p = FlowFile("Main", "chart") -> JL(<<>>)
              [] OTHER -> ExtensionOf(side, name, created, age)]

InitExt ==
    /\ pc = "start"
    /\ \E pairing \in {"paired", "other", "absent"}, mc \in MainCreated,
          ma \in Ages, fa \in Ages :
          /\ mainTree = ExtTree("main", pairing, mc, ma)
          /\ featureTree = ExtTree("feature", pairing, 1000, fa)
    /\ hist = <<featureTree>>
    /\ main_mapping = <<>>
    /\ feature_mapping = <<>>
    /\ id_mapping = <<>>
    /\ args = [feature_project_id |-> JS("PF"), main_project_id |-> JS("PM")]
    /\ NoClient
    /\ NoScript

SpecExt == InitExt /\ [][Next]_vars

\* The main tree's extensions with the name of extension
MainExtensionsFor(extension) ==
    {mainTree[q] : q \in {q \in DOMAIN mainTree :
                             /\ q[1] = "extensions"
                             /\ Get(mainTree[q], "name") = Get(extension, "name")}}

\* C11: after replace_extension_ids a feature extension with the name of a main
\* extension has the main extension's _id, imageUrlToken, createdBy and
\* createdAt; it has the main extension's lastChangedBy and lastChanged if its
\* own lastChanged minus its own createdAt, as they were before the call, is
\* less than 600, and its own lastChangedBy and lastChanged otherwise. A
\* feature extension with no main extension of its name is unchanged.
C11_ExtensionMatched ==
    Len(hist) >= 5 =>
        \A p \in {q \in DOMAIN hist[4] : q[1] = "extensions"} :
            LET before == hist[4][p]
                after == hist[5][p]
                mains == MainExtensionsFor(before)
                young == Get(before, "lastChanged").n - Get(before, "createdAt").n < 600
            IN  IF mains = {} THEN after = before
                ELSE \E m \in mains :
                        /\ \A k \in {"_id", "imageUrlToken", "createdBy", "createdAt"} :
                              Get(after, k) = Get(m, k)
                        /\ \A k \in {"lastChangedBy", "lastChanged"} :
                              Get(after, k) = IF young THEN Get(m, k) ELSE Get(before, k)

\* An extension changed 600 seconds after its creation has been matched by
\* name: it took the main extension's _id, imageUrlToken, createdBy and
\* createdAt and kept its own lastChanged and lastChangedBy.
C11_Witness ==
    /\ pc = "ext"
    /\ \E p \in DOMAIN hist[4] :
          /\ p[1] = "extensions"
          /\ MainExtensionsFor(hist[4][p]) # {}
          /\ Get(hist[4][p], "lastChanged") = JN(1600)
          /\ Get(hist[5][p], "_id") = JS("Me")
          /\ Get(hist[5][p], "imageUrlToken") = JS("Mtoken")
          /\ Get(hist[5][p], "createdBy") = JS("Mcreator")
          /\ Get(hist[5][p], "createdAt") # JN(1000)
          /\ Get(hist[5][p], "lastChangedBy") = JS("Feditor")
          /\ Get(hist[5][p], "lastChanged") = JN(1600)

\* C12: a second run of replace_extension_ids on the tree the first run
\* produced, with the same main tree, changes no file of the feature tree.
C12_ExtensionIdempotent ==
    pc = "ext" =>
        /\ ~replace_extension_ids_raises(featureTree, mainTree)
        /\ replace_extension_ids(featureTree, mainTree) = featureTree

----------------------------------------------------------------------------
(* A second run of the metadata step: C13 *)

\* C13: a second run of replace_metadata_in_files on the tree the first run
\* produced, with the same main mapping, changes no file of the feature tree.
C13_MetadataIdempotent ==
    pc = "done" => replace_metadata_in_files(featureTree, main_mapping) = featureTree

----------------------------------------------------------------------------
(* An interrupted run followed by a second run: C14 *)

\* helper_functions.py:225-261 as one function of the two trees: the feature
\* tree a run leaves when no step raises
replace_ids_in_feature_directory(main_tree, feature_tree, a) ==
    LET flow_settings_main_mapping == extract_flow_setting_ids(main_tree)
        flow_settings_feature_mapping == extract_flow_setting_ids(feature_tree)
        main_map == add_flow_settings(
                        load_json_files(main_tree, traverse_directory(main_tree)),
                        flow_settings_main_mapping, flow_settings_main_mapping, 0)
        feature_map == add_flow_settings(
                           load_json_files(feature_tree, traverse_directory(feature_tree)),
                           flow_settings_main_mapping, flow_settings_feature_mapping, 0)
        t == create_id_mapping(main_map, feature_map)
        table == [k \in DOMAIN t \cup {a.feature_project_id} |->
                     IF k = a.feature_project_id THEN a.main_project_id ELSE t[k]]
        replaced == replace_ids_in_files(feature_tree, table)
        lex == replace_lexicon_ids(replaced, main_tree)
        slot == replace_slot_ids(lex, main_tree)
        ext == replace_extension_ids(slot, main_tree)
    IN  replace_metadata_in_files(ext, main_map)

\* A node of the chart that executes the flow: it holds the flow's _id, which
\* metadata.json defines
ExecuteFlowNode(side) ==
    JD([_id |-> JS(IF side = "feature" THEN "Fx" ELSE "Mx"),
        referenceId |-> JS("rx"),
        flow |-> JS(IF side = "feature" THEN "Ff" ELSE "Mf")])

\* The trees of Init, with the chart executing its own flow when link holds
LinkedTree(side, c, link) ==
    LET tree == IF side = "feature" THEN FeatureTreeOf(c, "plain") ELSE MainTreeOf(c, "plain")
        chart == FlowFile("Main", "chart")
    IN  [p \in DOMAIN tree |->
            IF p = chart /\ link THEN JL(Append(tree[p].l, ExecuteFlowNode(side)))
            ELSE tree[p]]

InitCrash ==
    /\ pc = "start"
    /\ \E c \in Chains, link \in BOOLEAN :
          /\ mainTree = LinkedTree("main", c, link)
          /\ featureTree = LinkedTree("feature", c, link)
    /\ hist = <<featureTree>>
    /\ main_mapping = <<>>
    /\ feature_mapping = <<>>
    /\ id_mapping = <<>>
    /\ args = [feature_project_id |-> JS("PF"), main_project_id |-> JS("PM")]
    /\ NoClient
    /\ NoScript

\* The number of steps of lines 249-261 a run at position p has completed
StepsDone(p) ==
    CASE p = "replaced" -> 1
      [] p = "lex" -> 2
      [] p = "slot" -> 3
      [] p = "ext" -> 4
      [] p = "done" -> 5
      [] OTHER -> 0

\* No run has been interrupted: hist holds the initial tree and one tree for
\* each completed step
FirstRun == Len(hist) = 1 + StepsDone(pc)

\* The tree the step at position pc writes when it runs to completion
NextStep ==
    CASE pc = "mapped" -> replace_ids_in_files(featureTree, id_mapping)
      [] pc = "replaced" -> replace_lexicon_ids(featureTree, mainTree)
      [] pc = "lex" -> replace_slot_ids(featureTree, mainTree)
      [] pc = "slot" -> replace_extension_ids(featureTree, mainTree)
      [] pc = "ext" -> replace_metadata_in_files(featureTree, main_mapping)

\* The process is killed while the step at position pc writes its files: the
\* first k files, in the order of the walk, are written, the others are as
\* they were (every file is written with one json.dump, helper_functions.py:
\* 283-284). Nothing but the feature tree outlives the process;
\* replace_ids_in_feature_directory is then started again.
Interrupt ==
    /\ pc \in {"mapped", "replaced", "lex", "slot", "ext"}
    /\ FirstRun
    /\ \E k \in 0..(Len(traverse_directory(featureTree)) - 1) :
          LET written == {traverse_directory(featureTree)[i] : i \in 1..k}
          IN  featureTree' = [p \in DOMAIN featureTree |->
                                 IF p \in written THEN NextStep[p] ELSE featureTree[p]]
    /\ hist' = Append(hist, featureTree')
    /\ pc' = "start"
    /\ main_mapping' = <<>>
    /\ feature_mapping' = <<>>
    /\ id_mapping' = <<>>
    /\ UNCHANGED <<mainTree, args>>
    /\ UNCHANGED <<clientVars, scriptVars>>

NextCrash == Pipeline \/ Interrupt

SpecCrash == InitCrash /\ [][NextCrash]_vars

\* C14: when a run was interrupted and the run started after it has
\* completed, the feature tree is the tree an uninterrupted run on the initial
\* feature tree produces.
C14_RerunRecovers ==
    (pc = "done" /\ ~FirstRun) =>
        featureTree = replace_ids_in_feature_directory(mainTree, hist[1], args)

----------------------------------------------------------------------------
(* Trees with a malformed file or a missing directory: C15, C16 *)

\* An export with every resource type of the model: a flow, a lexicon and an
\* extension
FullTree(side, c) ==
    LET tree == IF side = "feature" THEN FeatureTreeOf(c, "renamed")
                ELSE MainTreeOf(c, "renamed")
        extension == <<"extensions", "Ext.json">>
    IN  [p \in DOMAIN tree \cup {extension} |->
            IF p = extension
            THEN ExtensionOf(side, "Ext", IF side = "feature" THEN 1000 ELSE 500, 0)
            ELSE tree[p]]

\* The tree with one file that does not hold valid JSON
Corrupt(tree, path) == [p \in DOMAIN tree |-> IF p = path THEN Malformed ELSE tree[p]]

\* bad: no file is malformed, or the file at path of one tree is
BadFiles ==
    {[side |-> "none", path |-> <<>>]}
    \cup [side : {"main", "feature"},
          path : {FlowFile("Main", "metadata"), FlowFile("Main", "settings"),
                  FlowFile("Main", "chart"), <<"lexicons", "Colors.json">>,
                  <<"extensions", "Ext.json">>}]

InitMalformed ==
    /\ pc = "start"
    /\ \E c \in Chains, bad \in BadFiles :
          /\ mainTree = IF bad.side = "main" THEN Corrupt(FullTree("main", c), bad.path)
                        ELSE FullTree("main", c)
          /\ featureTree = IF bad.side = "feature"
                           THEN Corrupt(FullTree("feature", c), bad.path)
                           ELSE FullTree("feature", c)
    /\ hist = <<featureTree>>
    /\ main_mapping = <<>>
    /\ feature_mapping = <<>>
    /\ id_mapping = <<>>
    /\ args = [feature_project_id |-> JS("PF"), main_project_id |-> JS("PM")]
    /\ NoClient
    /\ NoScript

SpecMalformed == InitMalformed /\ [][Next]_vars

HasMalformed(tree) == \E p \in DOMAIN tree : tree[p] = Malformed

\* C15: a run on trees of which one holds a malformed file does not end with
\* an exception.
C15_MalformedSkipped ==
    (HasMalformed(mainTree) \/ HasMalformed(hist[1])) => pc # "raised"

\* The tree without the directories dirs
Drop(tree, dirs) == [p \in {q \in DOMAIN tree : q[1] \notin dirs} |-> tree[p]]

ResourceTypes == {"flows", "lexicons", "extensions"}

InitMissing ==
    /\ pc = "start"
    /\ \E c \in {x \in Chains : Len(x.levels) = 1},
          md \in SUBSET ResourceTypes, fd \in SUBSET ResourceTypes :
          /\ mainTree = Drop(FullTree("main", c), md)
          /\ featureTree = Drop(FullTree("feature", c), fd)
    /\ hist = <<featureTree>>
    /\ main_mapping = <<>>
    /\ feature_mapping = <<>>
    /\ id_mapping = <<>>
    /\ args = [feature_project_id |-> JS("PF"), main_project_id |-> JS("PM")]
    /\ NoClient
    /\ NoScript

SpecMissing == InitMissing /\ [][Next]_vars

MissingIn(tree) == {d \in ResourceTypes : ~DirExists(tree, d)}

\* C16: a run on trees of which one lacks the directory of a resource type
\* does not end with an exception.
C16_MissingTolerated ==
    (MissingIn(mainTree) # {} \/ MissingIn(hist[1]) # {}) => pc # "raised"

----------------------------------------------------------------------------
(* retry_on_500 (helper_functions.py:9-28) *)

\* max_retries of retry_on_500() (helper_functions.py:9)
max_retries == 3

\* The reconciler's variables in the specifications of the vendor client
NoTrees ==
    /\ mainTree = <<>>
    /\ featureTree = <<>>
    /\ hist = <<>>
    /\ main_mapping = <<>>
    /\ feature_mapping = <<>>
    /\ id_mapping = <<>>
    /\ args = NoArgs

Count(kind) == [calls EXCEPT ![kind] = @ + 1]

\* Retried for every 5xx status (the variant C19 rules out)
RetriedOnServerError(method, status) ==
    status \in ServerErrors /\ retries[method] + 1 <= max_retries
\* lines 17-26: the wrapper of method has caught an HTTPError with this status.
\* It sleeps and calls the method again for status 500 while retries, once
\* incremented, does not exceed max_retries; it re-raises in every other case.
Retried(method, status) == status = "500" /\ retries[method] + 1 <= max_retries

----------------------------------------------------------------------------
(* CognigyAPIClient.download_package: the download loop (cognigy_client.py:239-284) *)

\* The number of downloads of one behaviour
MaxChecks == 5

\* os.path.getsize(package_path) / 1000 of a download, in kilobytes
Sizes == {0, 120, 240}

InitDownload ==
    /\ pc = "download"
    /\ NoTrees
    /\ NoScript
    /\ prev_size = 0
    /\ checks = <<>>
    /\ snapshots = 0
    /\ deleting = 0
    /\ creating = 0
    /\ retries = [m \in Decorated |-> 0]
    /\ calls = [k \in Kinds |-> IF k = "download_package" THEN 1 ELSE 0]
    /\ raised = "none"

\* lines 240-284: one turn of the loop whose requests succeed; curr_size is the
\* size of the file it has downloaded
DownloadCheck ==
    /\ pc = "download"
    /\ Len(checks) < MaxChecks
    /\ \E curr_size \in Sizes :
          /\ checks' = Append(checks, curr_size)
          /\ IF curr_size = 0
             THEN UNCHANGED <<pc, prev_size>>
             ELSE IF prev_size = 0 \/ curr_size # prev_size
             THEN /\ prev_size' = curr_size
                  /\ UNCHANGED pc
             ELSE /\ pc' = "downloaded"
                  /\ UNCHANGED prev_size
    /\ UNCHANGED <<snapshots, deleting, creating, retries, calls, raised>>
    /\ UNCHANGED <<treeVars, scriptVars>>

\* lines 249 and 256: a request of the loop is answered with an error status.
\* The wrapper either runs download_package again from line 214, where
\* prev_size is 0 again, or lets the HTTPError reach the caller.
DownloadFails ==
    /\ pc = "download"
    /\ Len(checks) < MaxChecks
    /\ \E status \in Statuses :
          IF Retried("download_package", status)
          THEN /\ retries' = [retries EXCEPT !["download_package"] = @ + 1]
               /\ calls' = [calls EXCEPT ![status] = @ + 1, !["sleep"] = @ + 1,
                                         !["download_package"] = @ + 1]
               /\ prev_size' = 0
               /\ UNCHANGED <<pc, raised>>
          ELSE /\ pc' = "raised"
               /\ raised' = status
               /\ calls' = Count(status)
               /\ UNCHANGED <<retries, prev_size>>
    /\ UNCHANGED <<checks, snapshots, deleting, creating>>
    /\ UNCHANGED <<treeVars, scriptVars>>

NextDownload == DownloadCheck \/ DownloadFails

SpecDownload == InitDownload /\ [][NextDownload]_vars

\* The check at position i read a non-zero size equal to the size the check
\* before it read
Stable(i) == i >= 2 /\ checks[i] # 0 /\ checks[i] = checks[i - 1]

\* C17: download_package returns at a check that is stable, and is not still
\* in its loop after a stable check: it returns at the first stable check.
C17_TwoConsecutive ==
    /\ pc = "downloaded" => Stable(Len(checks))
    /\ pc = "download" => \A i \in 1..Len(checks) : ~Stable(i)

----------------------------------------------------------------------------
(* CognigyAPIClient.download_snapshot and ensure_snapshot_limit
   (cognigy_client.py:286-417), each under retry_on_500 *)

\* int(self.max_snapshots)
max_snapshots == 2

\* The vendor project holds any number of snapshots up to one above the limit
InitSnapshot ==
    /\ pc = "ensure_list"
    /\ NoTrees
    /\ NoScript
    /\ prev_size = 0
    /\ checks = <<>>
    /\ snapshots \in 0..(max_snapshots + 1)
    /\ deleting = 0
    /\ creating = 0
    /\ retries = [m \in Decorated |-> 0]
    /\ calls = [k \in Kinds |-> IF k \in {"download_snapshot", "ensure_snapshot_limit"}
                                THEN 1 ELSE 0]
    /\ raised = "none"

\* The positions at which a request is made inside ensure_snapshot_limit, and
\* the others of download_snapshot
InEnsure == {"ensure_list", "ensure_delete", "ensure_poll"}
InDownload == {"list", "create", "find", "package", "get"}

\* lines 292-298: the listing, and the test of the limit
EnsureList ==
    /\ pc = "ensure_list"
    /\ pc' = IF snapshots >= max_snapshots THEN "ensure_delete" ELSE "list"
    /\ UNCHANGED <<prev_size, checks, snapshots, deleting, creating, retries, calls, raised>>
    /\ UNCHANGED <<treeVars, scriptVars>>

\* lines 300-303: the oldest snapshot listed is deleted; the project applies
\* the deletion later. While a deletion is pending the oldest snapshot listed
\* is the one being deleted.
EnsureDelete ==
    /\ pc = "ensure_delete"
    /\ pc' = "ensure_poll"
    /\ deleting' = 1
    /\ calls' = Count("delete")
    /\ UNCHANGED <<prev_size, checks, snapshots, creating, retries, raised>>
    /\ UNCHANGED <<treeVars, scriptVars>>

\* lines 305-311: the turn of the polling loop that leaves it. A turn that
\* reads a listing at or above the limit sleeps and changes nothing.
EnsurePoll ==
    /\ pc = "ensure_poll"
    /\ snapshots < max_snapshots
    /\ pc' = "list"
    /\ UNCHANGED <<prev_size, checks, snapshots, deleting, creating, retries, calls, raised>>
    /\ UNCHANGED <<treeVars, scriptVars>>

\* lines 326-343: the listing from which the new snapshot's name is derived
SnapshotList ==
    /\ pc = "list"
    /\ pc' = "create"
    /\ UNCHANGED <<prev_size, checks, snapshots, deleting, creating, retries, calls, raised>>
    /\ UNCHANGED <<treeVars, scriptVars>>

\* lines 345-353: the project accepts the task of creating the snapshot
SnapshotCreate ==
    /\ pc = "create"
    /\ pc' = "find"
    /\ creating' = creating + 1
    /\ calls' = Count("create")
    /\ UNCHANGED <<prev_size, checks, snapshots, deleting, retries, raised>>
    /\ UNCHANGED <<treeVars, scriptVars>>

\* lines 359-366: the turn of the loop that finds a snapshot of the new name in
\* the listing: the project has completed a creation this call asked for
SnapshotFind ==
    /\ pc = "find"
    /\ creating < calls["create"]
    /\ pc' = "package"
    /\ UNCHANGED <<prev_size, checks, snapshots, deleting, creating, retries, calls, raised>>
    /\ UNCHANGED <<treeVars, scriptVars>>

\* lines 370-371
SnapshotPackage ==
    /\ pc = "package"
    /\ pc' = "link"
    /\ UNCHANGED <<prev_size, checks, snapshots, deleting, creating, retries, calls, raised>>
    /\ UNCHANGED <<treeVars, scriptVars>>

\* lines 380-397, the download link is returned
SnapshotLink ==
    /\ pc = "link"
    /\ pc' = "get"
    /\ UNCHANGED <<prev_size, checks, snapshots, deleting, creating, retries, calls, raised>>
    /\ UNCHANGED <<treeVars, scriptVars>>

\* lines 400-417: the file is downloaded; when it is the placeholder the loop
\* asks for the link again
SnapshotGet ==
    /\ pc = "get"
    /\ pc' \in {"returned", "link"}
    /\ UNCHANGED <<prev_size, checks, snapshots, deleting, creating, retries, calls, raised>>
    /\ UNCHANGED <<treeVars, scriptVars>>

\* helper_functions.py:14-26 around both methods: an HTTPError with this status
\* is raised at position pc. Inside ensure_snapshot_limit its own wrapper
\* catches it first; what that wrapper re-raises, and every HTTPError raised in
\* download_snapshot itself, reaches the wrapper of download_snapshot, which
\* calls download_snapshot, and with it ensure_snapshot_limit, again.
Handle(status) ==
    LET inner == pc \in InEnsure /\ Retried("ensure_snapshot_limit", status)
        outer == ~inner /\ Retried("download_snapshot", status)
    IN  /\ pc' = IF inner \/ outer THEN "ensure_list" ELSE "raised"
        /\ raised' = IF inner \/ outer THEN raised ELSE status
        /\ retries' =
              IF inner THEN [retries EXCEPT !["ensure_snapshot_limit"] = @ + 1]
              ELSE IF outer THEN [retries EXCEPT !["download_snapshot"] = @ + 1,
                                                 !["ensure_snapshot_limit"] = 0]
              ELSE retries
        /\ calls' =
              IF inner THEN [calls EXCEPT ![status] = @ + 1, !["sleep"] = @ + 1,
                                          !["ensure_snapshot_limit"] = @ + 1]
              ELSE IF outer THEN [calls EXCEPT ![status] = @ + 1, !["sleep"] = @ + 1,
                                               !["download_snapshot"] = @ + 1,
                                               !["ensure_snapshot_limit"] = @ + 1]
              ELSE Count(status)

\* raise_for_status() after any request but that of the download link
RequestFails ==
    /\ pc \in InEnsure \cup InDownload
    /\ \E status \in Statuses : Handle(status)
    /\ UNCHANGED <<prev_size, checks, snapshots, deleting, creating>>
    /\ UNCHANGED <<treeVars, scriptVars>>

\* lines 380-396: the request of the download link is answered with an error
\* status. For 409 the loop calls raise_for_status() on the same response five
\* times, sleeping after each, and then executes a bare raise outside any
\* except clause, which raises RuntimeError; the wrappers catch HTTPError only.
\* Any other status is raised at once.
LinkFails ==
    /\ pc = "link"
    /\ \E status \in Statuses :
          IF status = "409"
          THEN /\ pc' = "raised"
               /\ raised' = "RuntimeError"
               /\ calls' = [calls EXCEPT ![status] = @ + 1, !["sleep"] = @ + 5]
               /\ UNCHANGED retries
          ELSE Handle(status)
    /\ UNCHANGED <<prev_size, checks, snapshots, deleting, creating>>
    /\ UNCHANGED <<treeVars, scriptVars>>

\* The vendor project applies the pending deletion
ServerDeletes ==
    /\ deleting = 1
    /\ snapshots > 0
    /\ snapshots' = snapshots - 1
    /\ deleting' = 0
    /\ UNCHANGED <<pc, prev_size, checks, creating, retries, calls, raised>>
    /\ UNCHANGED <<treeVars, scriptVars>>

\* The vendor project completes a pending creation
ServerCreates ==
    /\ creating > 0
    /\ snapshots' = snapshots + 1
    /\ creating' = creating - 1
    /\ UNCHANGED <<pc, prev_size, checks, deleting, retries, calls, raised>>
    /\ UNCHANGED <<treeVars, scriptVars>>

NextSnapshot ==
    \/ EnsureList
    \/ EnsureDelete
    \/ EnsurePoll
    \/ SnapshotList
    \/ SnapshotCreate
    \/ SnapshotFind
    \/ SnapshotPackage
    \/ SnapshotLink
    \/ SnapshotGet
    \/ RequestFails
    \/ LinkFails
    \/ ServerDeletes
    \/ ServerCreates

SpecSnapshot == InitSnapshot /\ [][NextSnapshot]_vars

----------------------------------------------------------------------------
(* The snapshot limit and the handling of error responses: C18, C19, C20 *)

\* C18: at every return of ensure_snapshot_limit the project lists fewer than
\* max_snapshots snapshots, and once the creations download_snapshot has asked
\* for are completed the project holds at most max_snapshots snapshots.
C18_SnapshotLimit ==
    /\ [][(pc \in InEnsure /\ pc' = "list") => snapshots' < max_snapshots]_vars
    /\ []((calls["create"] >= 1 /\ creating = 0) => snapshots <= max_snapshots)

\* C19 as stated: an error of any 5xx status reaches the caller only after
\* download_snapshot has been executed max_retries + 1 times.
C19_ServerErrorsRetried ==
    \A s \in ServerErrors : raised = s => calls["download_snapshot"] = max_retries + 1

\* C19, amended: a decorated method is executed once more for every retry of
\* its wrapper and is retried at most max_retries times; status 500 reaches
\* the caller only after max_retries + 1 executions of download_snapshot; a
\* response with any other status, 5xx included, is received at most once, and
\* with it the call ends in an exception.
C19_Status500Retried ==
    /\ \A m \in Decorated : retries[m] <= max_retries
    /\ calls["download_snapshot"] = retries["download_snapshot"] + 1
    /\ raised = "500" => calls["download_snapshot"] = max_retries + 1
    /\ \A s \in Statuses \ {"500"} : calls[s] <= 1 /\ (calls[s] = 1 => raised # "none")

\* Every listing of download_snapshot itself was answered with status 500:
\* four executions, a sleep before each but the first, then the error
C19_Witness ==
    /\ raised = "500"
    /\ calls["500"] = max_retries + 1
    /\ calls["download_snapshot"] = max_retries + 1
    /\ calls["sleep"] = max_retries

\* C20: once a response with a 4xx status has been received, the exception
\* that reached the caller is the HTTPError of that status, and every sleep
\* made is the sleep before the retry of a response with status 500.
C20_ClientErrorsPropagate ==
    \A s \in ClientErrors :
        calls[s] >= 1 => (raised = s /\ calls["sleep"] <= calls["500"])

----------------------------------------------------------------------------
(* The orchestration scripts deploy_agent.py, create_feature_branch_agent.py *)
(* and extract_agent.py up to their first call on the vendor client, and     *)
(* CognigyAPIClient.deploy_agent (cognigy_client.py:824-861)                *)

Scripts == {"deploy_agent", "create_feature_branch_agent", "extract_agent"}

\* The values HEAD_BRANCH and BASE_BRANCH are drawn from
Branches == {"development", "integration", "production"}

\* The variables each script reads with os.getenv and no default
Uses(script) ==
    CASE script = "deploy_agent" ->
           {"BOT_NAME", "MAX_SNAPSHOTS", "HEAD_BRANCH", "BASE_BRANCH",
            "COGNIGY_BASE_URL_TEST", "COGNIGY_API_KEY_TEST",
            "COGNIGY_BASE_URL_PROD", "COGNIGY_API_KEY_PROD"}
      [] script = "create_feature_branch_agent" ->
           {"COGNIGY_BASE_URL_DEV", "COGNIGY_API_KEY_DEV", "MAX_SNAPSHOTS",
            "BOT_NAME", "BRANCH_DESC", "LOCALE"}
      [] script = "extract_agent" ->
           {"COGNIGY_BASE_URL_DEV", "COGNIGY_BASE_URL_PROD", "COGNIGY_API_KEY_DEV",
            "COGNIGY_API_KEY_PROD", "MAX_SNAPSHOTS", "BOT_NAME",
            "RELEASE_DESCRIPTION", "RUN_AUTOMATED_TEST",
            "COGNIGY_BASE_URL_TEST", "COGNIGY_API_KEY_TEST"}

\* The value a variable has when it is set: the branch variables take any
\* branch name, a URL or a key names the environment it belongs to
EnvValues(v) ==
    CASE v \in {"HEAD_BRANCH", "BASE_BRANCH"} -> Branches
      [] v = "COGNIGY_BASE_URL_DEV" -> {"url-dev"}
      [] v = "COGNIGY_BASE_URL_TEST" -> {"url-test"}
      [] v = "COGNIGY_BASE_URL_PROD" -> {"url-prod"}
      [] v = "COGNIGY_API_KEY_DEV" -> {"key-dev"}
      [] v = "COGNIGY_API_KEY_TEST" -> {"key-test"}
      [] v = "COGNIGY_API_KEY_PROD" -> {"key-prod"}
      [] OTHER -> {"set"}

\* The number of variables unset in one environment
MaxUnset == 1

\* The environments of a script: at most MaxUnset of its variables are unset
Environments(script) ==
    {[v \in Uses(script) |->
         IF v \in unset THEN "unset"
         ELSE IF v = "HEAD_BRANCH" THEN head
         ELSE IF v = "BASE_BRANCH" THEN base
         ELSE CHOOSE x \in EnvValues(v) : TRUE] :
       unset \in {s \in SUBSET Uses(script) : Cardinality(s) <= MaxUnset},
       head \in Branches, base \in Branches}

\* The statements of each script in order, as far as its first call on the
\* client. require: the required_vars test; int: int(os.getenv(...)); lower:
\* os.getenv(...).lower(); read: open() of a file; rmtree: shutil.rmtree of the
\* agent folder; select and assign: the names given to CognigyAPIClient();
\* client: CognigyAPIClient(); call: the first method called on the client.
Program(script) ==
    CASE script = "deploy_agent" ->
           << [op |-> "read", arg |-> {"bot_mapping.json"}],
              [op |-> "int", arg |-> {"MAX_SNAPSHOTS"}],
              [op |-> "select", arg |-> {"HEAD_BRANCH", "BASE_BRANCH"}],
              [op |-> "client", arg |-> {"BOT_NAME"}],
              [op |-> "call", arg |-> {"deploy_agent"}] >>
      [] script = "create_feature_branch_agent" ->
           << [op |-> "require", arg |-> {"COGNIGY_BASE_URL_DEV", "COGNIGY_API_KEY_DEV",
                                          "MAX_SNAPSHOTS", "BOT_NAME"}],
              [op |-> "int", arg |-> {"MAX_SNAPSHOTS"}],
              [op |-> "rmtree", arg |-> {"agent"}],
              [op |-> "read", arg |-> {"bot_mapping.json"}],
              [op |-> "assign", arg |-> {"COGNIGY_BASE_URL_DEV", "COGNIGY_API_KEY_DEV"}],
              [op |-> "client", arg |-> {"BOT_NAME"}],
              [op |-> "call", arg |-> {"get_resource_ids"}] >>
      [] script = "extract_agent" ->
           << [op |-> "require", arg |-> {"COGNIGY_BASE_URL_DEV", "COGNIGY_BASE_URL_PROD",
                                          "COGNIGY_API_KEY_DEV", "COGNIGY_API_KEY_PROD",
                                          "MAX_SNAPSHOTS", "BOT_NAME",
                                          "RELEASE_DESCRIPTION", "RUN_AUTOMATED_TEST"}],
              [op |-> "int", arg |-> {"MAX_SNAPSHOTS"}],
              [op |-> "lower", arg |-> {"RUN_AUTOMATED_TEST"}],
              [op |-> "read", arg |-> {"bot_mapping.json"}],
              [op |-> "rmtree", arg |-> {"agent"}],
              [op |-> "assign", arg |-> {"COGNIGY_BASE_URL_DEV", "COGNIGY_API_KEY_DEV"}],
              [op |-> "client", arg |-> {"BOT_NAME"}],
              [op |-> "call", arg |-> {"get_flow_ids"}] >>

\* The methods of CognigyAPIClient the scripts call first that the class defines
Methods == {"deploy_agent", "get_flow_ids"}

\* The number of .csnap files the snapshot directory may hold
MaxCsnap == 2

InitScript ==
    /\ pc = "script"
    /\ NoTrees
    /\ prev_size = 0
    /\ checks = <<>>
    /\ snapshots \in 0..(max_snapshots + 1)
    /\ deleting = 0
    /\ creating = 0
    /\ retries = [m \in Decorated |-> 0]
    /\ calls = [k \in Kinds |-> 0]
    /\ raised = "none"
    /\ \E script \in Scripts :
          /\ locals = [NoLocals EXCEPT !.script = script, !.ip = 1]
          /\ env \in Environments(script)
    /\ effects = {}
    /\ csnap_files \in 0..MaxCsnap

\* The statement the script is at
Statement == Program(locals.script)[locals.ip]

AtStatement(ops) ==
    /\ pc = "script"
    /\ locals.ip <= Len(Program(locals.script))
    /\ Statement.op \in ops

Raise(exception) ==
    /\ pc' = "raised"
    /\ raised' = exception

Proceed == locals' = [locals EXCEPT !.ip = @ + 1]

\* The required_vars test (create_feature_branch_agent.py:15-25,
\* extract_agent.py:15-29), int(os.getenv(...)) and os.getenv(...).lower():
\* os.getenv gives None for a variable that is not set
GetEnv ==
    /\ AtStatement({"require", "int", "lower"})
    /\ IF \E v \in Statement.arg : env[v] = "unset"
       THEN /\ Raise(CASE Statement.op = "require" -> "EnvironmentError"
                       [] Statement.op = "int" -> "TypeError"
                       [] Statement.op = "lower" -> "AttributeError")
            /\ UNCHANGED locals
       ELSE /\ Proceed
            /\ UNCHANGED <<pc, raised>>
    /\ UNCHANGED <<prev_size, checks, snapshots, deleting, creating, retries, calls>>
    /\ UNCHANGED <<env, effects, csnap_files>>
    /\ UNCHANGED treeVars

\* open("bot_mapping.json") and shutil.rmtree(agent_folder), which removes the
\* snapshot directory with the agent folder
FileStep ==
    /\ AtStatement({"read", "rmtree"})
    /\ effects' = effects \cup {Statement.op}
    /\ csnap_files' = IF Statement.op = "rmtree" THEN 0 ELSE csnap_files
    /\ Proceed
    /\ UNCHANGED <<pc, env>>
    /\ UNCHANGED clientVars
    /\ UNCHANGED treeVars

\* bot_mappings["test"], bot_mappings["prod"], bot_mappings["dev"]
ProjectOf(environment) ==
    CASE environment = "test" -> "project-test"
      [] environment = "prod" -> "project-prod"
      [] environment = "dev" -> "project-dev"

\* The target chosen by BASE_BRANCH alone (the variant C30 rules out)
SelectByBase ==
    /\ AtStatement({"select"})
    /\ IF env["BASE_BRANCH"] = "integration"
       THEN /\ locals' = [locals EXCEPT !.ip = @ + 1,
                                        !.project_id = ProjectOf("test"),
                                        !.base_url = env["COGNIGY_BASE_URL_TEST"],
                                        !.api_key = env["COGNIGY_API_KEY_TEST"]]
            /\ UNCHANGED <<pc, raised>>
       ELSE IF env["BASE_BRANCH"] = "production"
       THEN /\ locals' = [locals EXCEPT !.ip = @ + 1,
                                        !.project_id = ProjectOf("prod"),
                                        !.base_url = env["COGNIGY_BASE_URL_PROD"],
                                        !.api_key = env["COGNIGY_API_KEY_PROD"]]
            /\ UNCHANGED <<pc, raised>>
       ELSE /\ Raise("EnvironmentError")
            /\ UNCHANGED locals
    /\ UNCHANGED <<prev_size, checks, snapshots, deleting, creating, retries, calls>>
    /\ UNCHANGED <<env, effects, csnap_files>>
    /\ UNCHANGED treeVars
\* deploy_agent.py:18-29
Select ==
    /\ AtStatement({"select"})
    /\ IF env["HEAD_BRANCH"] = "development" /\ env["BASE_BRANCH"] = "integration"
       THEN /\ locals' = [locals EXCEPT !.ip = @ + 1,
                                        !.project_id = ProjectOf("test"),
                                        !.base_url = env["COGNIGY_BASE_URL_TEST"],
                                        !.api_key = env["COGNIGY_API_KEY_TEST"]]
            /\ UNCHANGED <<pc, raised>>
       ELSE IF env["HEAD_BRANCH"] = "integration" /\ env["BASE_BRANCH"] = "production"
       THEN /\ locals' = [locals EXCEPT !.ip = @ + 1,
                                        !.project_id = ProjectOf("prod"),
                                        !.base_url = env["COGNIGY_BASE_URL_PROD"],
                                        !.api_key = env["COGNIGY_API_KEY_PROD"]]
            /\ UNCHANGED <<pc, raised>>
       ELSE /\ Raise("EnvironmentError")
            /\ UNCHANGED locals
    /\ UNCHANGED <<prev_size, checks, snapshots, deleting, creating, retries, calls>>
    /\ UNCHANGED <<env, effects, csnap_files>>
    /\ UNCHANGED treeVars

\* create_feature_branch_agent.py:28-29 and 44, extract_agent.py:32, 34 and 46
Assign ==
    /\ AtStatement({"assign"})
    /\ locals' = [locals EXCEPT !.ip = @ + 1,
                                !.project_id = ProjectOf("dev"),
                                !.base_url = env["COGNIGY_BASE_URL_DEV"],
                                !.api_key = env["COGNIGY_API_KEY_DEV"]]
    /\ UNCHANGED <<pc, env, effects, csnap_files>>
    /\ UNCHANGED clientVars
    /\ UNCHANGED treeVars

\* CognigyAPIClient.__init__ (cognigy_client.py:31-61): ValueError when
\* base_url, api_key, project_id or bot_name is None; no request is made
Client ==
    /\ AtStatement({"client"})
    /\ IF \/ "unset" \in {locals.base_url, locals.api_key, locals.project_id}
          \/ \E v \in Statement.arg : env[v] = "unset"
       THEN /\ Raise("ValueError")
            /\ UNCHANGED locals
       ELSE /\ locals' = [locals EXCEPT !.ip = @ + 1, !.client = TRUE]
            /\ UNCHANGED <<pc, raised>>
    /\ UNCHANGED <<prev_size, checks, snapshots, deleting, creating, retries, calls>>
    /\ UNCHANGED <<env, effects, csnap_files>>
    /\ UNCHANGED treeVars

\* The first method called on the client: deploy_agent is followed into the
\* method; get_flow_ids sends a request, and with it the model leaves the
\* script; a name the class does not define raises AttributeError
Call ==
    /\ AtStatement({"call"})
    /\ IF Statement.arg = {"deploy_agent"}
       THEN /\ pc' = "deploy_check"
            /\ calls' = Count("deploy_agent")
            /\ UNCHANGED <<raised, effects>>
       ELSE IF Statement.arg \subseteq Methods
       THEN /\ pc' = "done"
            /\ effects' = effects \cup {"request"}
            /\ UNCHANGED <<raised, calls>>
       ELSE /\ Raise("AttributeError")
            /\ UNCHANGED <<effects, calls>>
    /\ Proceed
    /\ UNCHANGED <<prev_size, checks, snapshots, deleting, creating, retries>>
    /\ UNCHANGED <<env, csnap_files>>
    /\ UNCHANGED treeVars

\* The positions of deploy_agent inside its call of ensure_snapshot_limit
InDeployEnsure == {"deploy_ensure_list", "deploy_ensure_delete", "deploy_ensure_poll"}

\* The request made at each position of deploy_agent
RequestAt(position) ==
    CASE position \in {"deploy_ensure_list", "deploy_ensure_poll"} -> "list"
      [] position = "deploy_ensure_delete" -> "delete"
      [] position = "deploy_upload" -> "upload"

\* What the vendor receives
Requests == {"request", "list", "delete", "upload"}

\* Only an empty directory is an error (the variant C21 rules out)
csnap_error_empty_only(csnap_count) ==
    IF csnap_count = 0 THEN "FileNotFoundError" ELSE "none"

\* cognigy_client.py:835-838: the exception raised for this number of .csnap
\* files in the snapshot directory ("none": none)
csnap_error(csnap_count) ==
    IF csnap_count = 0 THEN "FileNotFoundError"
    ELSE IF csnap_count > 1 THEN "RuntimeError"
    ELSE "none"

\* cognigy_client.py:833-838
DeployCheck ==
    /\ pc = "deploy_check"
    /\ IF csnap_error(csnap_files) # "none"
       THEN Raise(csnap_error(csnap_files))
       ELSE pc' = "deploy_ensure_list" /\ UNCHANGED raised
    /\ UNCHANGED <<prev_size, checks, snapshots, deleting, creating, retries, calls>>
    /\ UNCHANGED scriptVars
    /\ UNCHANGED treeVars

\* line 841, lines 292-298
DeployEnsureList ==
    /\ pc = "deploy_ensure_list"
    /\ pc' = IF snapshots >= max_snapshots THEN "deploy_ensure_delete" ELSE "deploy_upload"
    /\ effects' = effects \cup {RequestAt(pc)}
    /\ UNCHANGED <<env, locals, csnap_files>>
    /\ UNCHANGED clientVars
    /\ UNCHANGED treeVars

\* lines 300-303
DeployEnsureDelete ==
    /\ pc = "deploy_ensure_delete"
    /\ pc' = "deploy_ensure_poll"
    /\ deleting' = 1
    /\ calls' = Count("delete")
    /\ effects' = effects \cup {RequestAt(pc)}
    /\ UNCHANGED <<prev_size, checks, snapshots, creating, retries, raised>>
    /\ UNCHANGED <<env, locals, csnap_files>>
    /\ UNCHANGED treeVars

\* lines 305-311: the turn of the polling loop that leaves it
DeployEnsurePoll ==
    /\ pc = "deploy_ensure_poll"
    /\ snapshots < max_snapshots
    /\ pc' = "deploy_upload"
    /\ effects' = effects \cup {RequestAt(pc)}
    /\ UNCHANGED <<env, locals, csnap_files>>
    /\ UNCHANGED clientVars
    /\ UNCHANGED treeVars

\* lines 844-861: the snapshot file is uploaded into the project
DeployUpload ==
    /\ pc = "deploy_upload"
    /\ pc' = "done"
    /\ snapshots' = snapshots + 1
    /\ effects' = effects \cup {RequestAt(pc)}
    /\ UNCHANGED <<prev_size, checks, deleting, creating, retries, calls, raised>>
    /\ UNCHANGED <<env, locals, csnap_files>>
    /\ UNCHANGED treeVars

\* raise_for_status() after a request of deploy_agent (lines 293, 303, 307,
\* 859). The wrapper of ensure_snapshot_limit catches what is raised inside
\* it; what it re-raises, and the HTTPError of the upload, reaches the wrapper
\* of deploy_agent, which calls deploy_agent again from line 830.
DeployFails ==
    /\ pc \in InDeployEnsure \cup {"deploy_upload"}
    /\ effects' = effects \cup {RequestAt(pc)}
    /\ \E status \in Statuses :
          LET inner == pc \in InDeployEnsure /\ Retried("ensure_snapshot_limit", status)
              outer == ~inner /\ Retried("deploy_agent", status)
          IN  /\ pc' = IF inner THEN "deploy_ensure_list"
                       ELSE IF outer THEN "deploy_check" ELSE "raised"
              /\ raised' = IF inner \/ outer THEN raised ELSE status
              /\ retries' =
                    IF inner THEN [retries EXCEPT !["ensure_snapshot_limit"] = @ + 1]
                    ELSE IF outer THEN [retries EXCEPT !["deploy_agent"] = @ + 1,
                                                       !["ensure_snapshot_limit"] = 0]
                    ELSE retries
              /\ calls' =
                    IF inner THEN [calls EXCEPT ![status] = @ + 1, !["sleep"] = @ + 1,
                                                !["ensure_snapshot_limit"] = @ + 1]
                    ELSE IF outer THEN [calls EXCEPT ![status] = @ + 1, !["sleep"] = @ + 1,
                                                     !["deploy_agent"] = @ + 1]
                    ELSE Count(status)
    /\ UNCHANGED <<prev_size, checks, snapshots, deleting, creating>>
    /\ UNCHANGED <<env, locals, csnap_files>>
    /\ UNCHANGED treeVars

NextScript ==
    \/ GetEnv
    \/ FileStep
    \/ Select
    \/ Assign
    \/ Client
    \/ Call
    \/ DeployCheck
    \/ DeployEnsureList
    \/ DeployEnsureDelete
    \/ DeployEnsurePoll
    \/ DeployUpload
    \/ DeployFails
    \/ ServerDeletes

SpecScript == InitScript /\ [][NextScript]_vars

----------------------------------------------------------------------------
(* deploy_agent and the orchestration scripts: C21, C22, C30 *)

\* C21: once deploy_agent has been called with no .csnap file or more than
\* one in the snapshot directory, no request has reached the vendor, and as
\* soon as the call has left its test of the directory it has ended in
\* FileNotFoundError (none) or RuntimeError (several); a listing, a deletion
\* or an upload has been requested only with exactly one .csnap file.
C21_CsnapFatal ==
    calls["deploy_agent"] >= 1 =>
        /\ csnap_files # 1 =>
              /\ effects \cap Requests = {}
              /\ pc # "deploy_check" =>
                    /\ pc = "raised"
                    /\ raised = (IF csnap_files = 0 THEN "FileNotFoundError"
                                                   ELSE "RuntimeError")
        /\ effects \cap Requests # {} => csnap_files = 1

\* Two .csnap files: deploy_agent has ended in RuntimeError
C21_Witness ==
    /\ calls["deploy_agent"] = 1
    /\ csnap_files = 2
    /\ raised = "RuntimeError"


\* C22: in every script, while a variable the script uses is unset the script
\* has had no file and no network activity.
C22_FailFast ==
    (\E v \in DOMAIN env : env[v] = "unset") => effects = {}

\* C30: deploy_agent.py has created its client only for HEAD_BRANCH
\* 'development' with BASE_BRANCH 'integration', and then with the project id,
\* base URL and API key of test, or for 'integration' with 'production', and
\* then with those of prod; for every other pair the script is still before
\* its choice or has ended in an error, with no client created; and a request
\* has reached the vendor only after the client was created.
C30_TargetSafe ==
    locals.script = "deploy_agent" =>
        LET to_test == env["HEAD_BRANCH"] = "development" /\ env["BASE_BRANCH"] = "integration"
            to_prod == env["HEAD_BRANCH"] = "integration" /\ env["BASE_BRANCH"] = "production"
            target == <<locals.project_id, locals.base_url, locals.api_key>>
        IN  /\ locals.client =>
                  \/ to_test /\ target = <<"project-test", "url-test", "key-test">>
                  \/ to_prod /\ target = <<"project-prod", "url-prod", "key-prod">>
            /\ ~(to_test \/ to_prod) =>
                  /\ ~locals.client
                  /\ pc \in {"script", "raised"}
                  /\ locals.ip <= 3
            /\ effects \cap Requests # {} => locals.client

\* The snapshot has been uploaded into the prod project
C30_Witness ==
    /\ locals.script = "deploy_agent"
    /\ "upload" \in effects
    /\ locals.project_id = "project-prod"
    /\ env["HEAD_BRANCH"] = "integration"

----------------------------------------------------------------------------
(* Trees in which a referenceId occurs more than once: C23 *)

\* The number of objects at the top of the chart
MaxDup == 2

\* An object of the chart: its referenceId is that of the flow's metadata.json
\* or one of its own, its _id one of two, and it may hold a nested object of
\* the same referenceId
DupShapes == [ref : {"rf", "r1"}, id : 1..2, child : 0..2]

DupId(side, swap, i) ==
    JS((IF side = "feature" THEN "F" ELSE "M")
       \o ToString(IF side = "feature" /\ swap THEN 3 - i ELSE i))

DupNode(side, swap, shape) ==
    LET keys == {"_id", "referenceId"} \cup (IF shape.child = 0 THEN {} ELSE {"child"})
    IN  JD([x \in keys |->
              CASE x = "_id" -> DupId(side, swap, shape.id)
                [] x = "referenceId" -> JS(shape.ref)
                [] x = "child" -> JD([_id |-> DupId(side, swap, shape.child),
                                      referenceId |-> JS(shape.ref)])])

DupTree(side, swap, shapes) ==
    [p \in {FlowFile("Main", "metadata"), FlowFile("Main", "settings"),
            FlowFile("Main", "chart")} |->
        CASE p = FlowFile("Main", "metadata") ->
               IF side = "feature" THEN FlowMetadata("Ff", "PF") ELSE FlowMetadata("Mf", "PM")
          [] p = FlowFile("Main", "settings") ->
               JD([_id |-> JS(IF side = "feature" THEN "Fs" ELSE "Ms")])
          [] OTHER ->
               JL([i \in 1..Len(shapes) |-> DupNode(side, swap, shapes[i])])]

InitDup ==
    /\ pc = "start"
    /\ \E n \in 1..MaxDup, swap \in BOOLEAN :
          \E shapes \in [1..n -> DupShapes] :
             /\ mainTree = DupTree("main", FALSE, shapes)
             /\ featureTree = DupTree("feature", swap, shapes)
    /\ hist = <<featureTree>>
    /\ main_mapping = <<>>
    /\ feature_mapping = <<>>
    /\ id_mapping = <<>>
    /\ args = [feature_project_id |-> JS("PF"), main_project_id |-> JS("PM")]
    /\ NoClient
    /\ NoScript

SpecDup == InitDup /\ [][Next]_vars

\* The objects with a referenceId in the order in which they are encountered:
\* the files in traversal order, each file in pre-order
RECURSIVE ObjectsInOrder(_, _)
ObjectsInOrder(tree, file_paths) ==
    IF file_paths = <<>> THEN <<>>
    ELSE extract_objects(tree[Head(file_paths)]) \o ObjectsInOrder(tree, Tail(file_paths))

FirstIdOf(tree, r) ==
    LET objects == ObjectsInOrder(tree, traverse_directory(tree))
        first == Least({i \in 1..Len(objects) : Get(objects[i], "referenceId") = r})
    IN  Get(objects[first], "_id")

\* The referenceIds that occur in the tree with two different _id values
DupRefs(tree) ==
    {r \in RefsIn(tree) :
        \E o1 \in ObjectsOf(tree), o2 \in ObjectsOf(tree) :
           /\ Get(o1, "referenceId") = r
           /\ Get(o2, "referenceId") = r
           /\ Get(o1, "_id") # Get(o2, "_id")}

\* C23: once the two trees are loaded, the map of each tree records for every
\* referenceId of the tree the _id of its first occurrence, files in traversal
\* order and each file in pre-order.
C23_FirstOccurrence ==
    pc # "start" =>
        /\ \A r \in RefsIn(mainTree) :
              MapHas(main_mapping, r) /\ MapGet(main_mapping, r).id = FirstIdOf(mainTree, r)
        /\ \A r \in RefsIn(hist[1]) :
              MapHas(feature_mapping, r) /\ MapGet(feature_mapping, r).id = FirstIdOf(hist[1], r)

\* Both trees are loaded and each holds a referenceId with two different _id
\* values, one of them in a later file or deeper in the same file
C23_Witness ==
    /\ pc # "start"
    /\ DupRefs(mainTree) # {}
    /\ DupRefs(hist[1]) # {}
    /\ \E r \in DupRefs(mainTree) : MapGet(main_mapping, r).id = FirstIdOf(mainTree, r)

----------------------------------------------------------------------------
(* Trees whose flows differ: C24 *)

FlowNames == {"Main", "Side"}

\* The files of one exported flow; with link its chart holds the _id of the
\* flow's settings
FlowFilesOf(side, flow, renamed, link) ==
    LET settings_id == IF side = "feature" /\ renamed THEN "Fs" \o flow ELSE "Ms" \o flow
    IN  [p \in {FlowFile(flow, "metadata"), FlowFile(flow, "settings")}
               \cup (IF flow = "Main" THEN {FlowFile(flow, "chart")} ELSE {}) |->
            CASE p = FlowFile(flow, "metadata") ->
                   JD([_id |-> JS((IF side = "feature" THEN "Ff" ELSE "Mf") \o flow),
                       referenceId |-> JS("rf" \o flow), name |-> JS(flow)])
              [] p = FlowFile(flow, "settings") -> JD([_id |-> JS(settings_id)])
              [] OTHER -> JL(IF link THEN <<JD([settings |-> JS(settings_id)])>> ELSE <<>>)]

\* The export of an agent that has these flows
FlowsTree(side, flows, renamed, link) ==
    [p \in UNION {DOMAIN FlowFilesOf(side, f, renamed, link) : f \in flows} |->
        FlowFilesOf(side, p[2], renamed, link)[p]]

InitFlows ==
    /\ pc = "start"
    /\ \E main_flows \in SUBSET FlowNames \ {{}}, feature_flows \in SUBSET FlowNames \ {{}},
          renamed \in BOOLEAN, link \in BOOLEAN :
             /\ mainTree = FlowsTree("main", main_flows, renamed, link)
             /\ featureTree = FlowsTree("feature", feature_flows, renamed, link)
    /\ hist = <<featureTree>>
    /\ main_mapping = <<>>
    /\ feature_mapping = <<>>
    /\ id_mapping = <<>>
    /\ args = [feature_project_id |-> JS("PF"), main_project_id |-> JS("PM")]
    /\ NoClient
    /\ NoScript

SpecFlows == InitFlows /\ [][Next]_vars

FlowsOf(tree) == {p[2] : p \in {q \in DOMAIN tree : q[1] = "flows"}}
FlowRefOf(tree, flow) == Get(tree[FlowFile(flow, "metadata")], "referenceId")
SettingsIdOf(tree, flow) == Get(tree[FlowFile(flow, "settings")], "_id")

\* The table, once built, has for every flow of both trees the entry from the
\* feature settings _id to the main settings _id, and no entry from or to the
\* settings _id of a flow of one tree only
FlowSettingsPairs ==
    pc \notin {"start", "loaded", "flows", "raised"} =>
        /\ \A m \in FlowsOf(mainTree), f \in FlowsOf(hist[1]) :
              FlowRefOf(mainTree, m) = FlowRefOf(hist[1], f) =>
                  /\ SettingsIdOf(hist[1], f) \in DOMAIN id_mapping
                  /\ id_mapping[SettingsIdOf(hist[1], f)] = SettingsIdOf(mainTree, m)
        /\ \A f \in FlowsOf(hist[1]) :
              (\A m \in FlowsOf(mainTree) : FlowRefOf(mainTree, m) # FlowRefOf(hist[1], f)) =>
                  SettingsIdOf(hist[1], f) \notin DOMAIN id_mapping
        /\ \A m \in FlowsOf(mainTree) :
              (\A f \in FlowsOf(hist[1]) : FlowRefOf(mainTree, m) # FlowRefOf(hist[1], f)) =>
                  \A k \in DOMAIN id_mapping : id_mapping[k] # SettingsIdOf(mainTree, m)

\* C24: the table has exactly the substitutions of the flows present in both
\* trees, and replace_ids_in_feature_directory does not abort when a flow is
\* in one tree only.
C24_FlowSettingsExact ==
    /\ FlowSettingsPairs
    /\ FlowsOf(mainTree) # FlowsOf(hist[1]) => pc # "raised"

----------------------------------------------------------------------------
(* Extensions with nested nodes and connections: C25 *)

\* The value under defaultLabel or fieldName: a label, None ("null"), or the
\* key is missing ("absent")
MainLabels == {"Say", "Ask", "absent"}
FeatureLabels == {"Say", "Ask", "null", "absent"}

\* An object of nodes or connections
NestObject(id, has_id, key, label, items) ==
    LET keys == (IF has_id THEN {"_id"} ELSE {})
                \cup (IF label = "absent" THEN {} ELSE {key})
                \cup (IF items = <<>> THEN {} ELSE {"items"})
    IN  JD([x \in keys |->
              CASE x = "_id" -> JS(id)
                [] x = "items" -> JL(items)
                [] OTHER -> IF label = "null" THEN JNull ELSE JS(label)])

\* The main extension: two objects, the first with one object nested in it
MainNest(key, has_id, labels) ==
    JL(<< NestObject("M1", has_id, key, labels[1],
                     << NestObject("M2", TRUE, key, labels[2], <<>>) >>),
          NestObject("M3", TRUE, key, labels[3], <<>>) >>)

\* The feature extension: one object with one object nested in it
FeatureNest(key, has_id, labels) ==
    JL(<< NestObject("F1", has_id, key, labels[1],
                     << NestObject("F2", TRUE, key, labels[2], <<>>) >>) >>)

MatchKey(part) == IF part = "nodes" THEN "defaultLabel" ELSE "fieldName"

NestTree(side, part, objects) ==
    LET tree == ExtTree(side, "paired", 1000, 900)
        extension == <<"extensions", "Ext.json">>
    IN  [p \in DOMAIN tree |->
            IF p = extension THEN Put(Without(tree[p], {"nodes"}), part, objects)
            ELSE tree[p]]

InitNest ==
    /\ pc = "start"
    /\ \E part \in {"nodes", "connections"}, main_id \in BOOLEAN, feature_id \in BOOLEAN,
          main_labels \in [1..3 -> MainLabels], feature_labels \in [1..2 -> FeatureLabels] :
             /\ mainTree = NestTree("main", part,
                                    MainNest(MatchKey(part), main_id, main_labels))
             /\ featureTree = NestTree("feature", part,
                                       FeatureNest(MatchKey(part), feature_id, feature_labels))
    /\ hist = <<featureTree>>
    /\ main_mapping = <<>>
    /\ feature_mapping = <<>>
    /\ id_mapping = <<>>
    /\ args = [feature_project_id |-> JS("PF"), main_project_id |-> JS("PM")]
    /\ NoClient
    /\ NoScript

SpecNest == InitNest /\ [][Next]_vars

\* The objects nested under a value at any depth, depth first: an object comes
\* before the objects nested in it
RECURSIVE DictsUnder(_)
RECURSIVE DictsUnderKeys(_, _)
RECURSIVE DictsUnderItems(_)
DictsUnderKeys(obj, keys) ==
    IF keys = <<>> THEN <<>>
    ELSE LET v == obj.d[Head(keys)]
         IN  (IF IsDict(v) THEN <<v>> ELSE <<>>) \o DictsUnder(v)
             \o DictsUnderKeys(obj, Tail(keys))

DictsUnderItems(q) ==
    IF q = <<>> THEN <<>>
    ELSE (IF IsDict(Head(q)) THEN <<Head(q)>> ELSE <<>>) \o DictsUnder(Head(q))
         \o DictsUnderItems(Tail(q))

DictsUnder(v) ==
    IF IsDict(v) THEN DictsUnderKeys(v, Keys(v))
    ELSE IF IsList(v) THEN DictsUnderItems(v.l)
    ELSE <<>>

\* The main objects that carry the key with this value, depth first
Carriers(main_objects, key, value) ==
    SelectSeq(DictsUnder(main_objects), LAMBDA d : Has(d, key) /\ d.d[key] = value)

\* The extension file of a tree, and the part of it that holds the objects
ExtensionIn(tree) == tree[<<"extensions", "Ext.json">>]
PartOf(extension) == IF Has(extension, "nodes") THEN "nodes" ELSE "connections"

\* The _id a feature object is to end with: that of the first main object that
\* carries the key with the object's value, its own when there is none
ExpectedId(object, main_objects, key) ==
    IF /\ Has(object, "_id")
       /\ Has(object, key)
       /\ Carriers(main_objects, key, object.d[key]) # <<>>
    THEN Get(Carriers(main_objects, key, object.d[key])[1], "_id")
    ELSE Get(object, "_id")

\* C25: replace_extension_ids does not abort, and after it every object of the
\* feature extension's nodes (connections) has the _id of the first main
\* object, depth first, that carries defaultLabel (fieldName) with the same
\* value, and its own _id when it has no such key, or no main object does.
C25_NestedMatched ==
    /\ pc # "raised"
    /\ Len(hist) >= 5 =>
          LET part == PartOf(ExtensionIn(hist[4]))
              key == MatchKey(part)
              main_objects == ExtensionIn(mainTree).d[part]
              before == DictsUnder(ExtensionIn(hist[4]).d[part])
              after == DictsUnder(ExtensionIn(hist[5]).d[part])
          IN  /\ Len(after) = Len(before)
              /\ \A i \in 1..Len(before) :
                    /\ Has(after[i], "_id") = Has(before[i], "_id")
                    /\ Get(after[i], "_id") = ExpectedId(before[i], main_objects, key)


----------------------------------------------------------------------------
(* The main tree during reconciliation *)

\* C26: no step of replace_ids_in_feature_directory changes a file of the
\* main tree, in a run that completes as in a run that raises.
C26_MainUntouched ==
    [][mainTree' = mainTree]_vars

\* a run that raised after it had rewritten files of the feature tree
C26_Witness ==
    /\ pc = "raised"
    /\ Len(hist) > 1
    /\ featureTree # hist[1]


----------------------------------------------------------------------------
(* Side effects of one call of download_snapshot on the vendor project *)

\* C27: one call of download_snapshot, with the executions its wrapper adds
\* after a response of status 500, asks the project for at most one snapshot
\* creation and at most one deletion of the oldest snapshot.
C27_OneSideEffect ==
    /\ calls["create"] <= 1
    /\ calls["delete"] <= 1


----------------------------------------------------------------------------
(* Termination of ensure_snapshot_limit (cognigy_client.py:286-312) *)

\* ensure_snapshot_limit as download_snapshot calls it (line 324), up to the
\* listing that follows its return
NextEnsure ==
    \/ EnsureList
    \/ EnsureDelete
    \/ EnsurePoll
    \/ RequestFails
    \/ ServerDeletes

\* The method executes its next statement, the polling loop takes its next
\* turn (lines 305-311), and the project applies a deletion it has accepted
FairEnsure ==
    /\ WF_vars(EnsureList)
    /\ WF_vars(EnsureDelete)
    /\ WF_vars(EnsurePoll)
    /\ WF_vars(ServerDeletes)

SpecEnsure == InitSnapshot /\ [][NextEnsure]_vars /\ FairEnsure

\* raise_for_status() has raised for no response
NoFailure ==
    \A status \in Statuses : calls[status] = 0

\* C28: from every initial number of snapshots, when every request succeeds
\* and every accepted deletion is applied, ensure_snapshot_limit leaves its
\* polling loop and returns.
C28_EnsureTerminates ==
    (pc \in InEnsure /\ NoFailure) ~> (pc \notin InEnsure \/ ~NoFailure)


----------------------------------------------------------------------------
(* Distinct identifiers of lexicon entries: C29 *)

DistinctIds(values) ==
    \A i, j \in 1..Len(values) :
        i # j => Get(values[i], "_id") # Get(values[j], "_id")

\* C29: when the entries of a feature lexicon have pairwise distinct _id
\* values before replace_lexicon_ids, and the entries of the main lexicon of
\* the same referenceId have pairwise distinct _id values, the feature entries
\* have pairwise distinct _id values afterwards.
C29_DistinctPreserved ==
    Len(hist) >= 3 =>
        \A p \in {q \in DOMAIN hist[2] : q[1] = "lexicons"} :
            (DistinctIds(ValuesOf(hist[2][p])) /\ DistinctIds(MainValuesFor(hist[2][p])))
                => DistinctIds(ValuesOf(hist[3][p]))

=============================================================================
